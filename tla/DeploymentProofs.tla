-------------------------- MODULE DeploymentProofs --------------------------
(***************************************************************************)
(* Proofs about the deployment controller, for every number of sets, every *)
(* template and every bound.                                               *)
(***************************************************************************)
EXTENDS Deployment, FiniteSetTheorems, TLAPS

USE DEF FirewallShortestDistance, FirewallRollingUpdateSetDistance,
        FirewallMaxReplicas, RollingUpdate, Recreate

-----------------------------------------------------------------------------
(* What the helper operators return *)

LEMMA NoSpecType == NoSpec \in Target
BY DEF NoSpec, Target

LEMMA TargetType ==
  ASSUME NEW t \in Target
  PROVE  /\ t.image \in Images \cup {None} /\ t.rules \in Rules \cup {None}
         /\ t.replicas \in 0..FirewallMaxReplicas
         /\ t.strategy \in {RollingUpdate, Recreate}
BY DEF Target, NoSpec, DeploymentSpec

LEMMA AbsentType == Absent \in SetObject /\ Absent.phase = "absent"
BY DEF Absent, SetObject

LEMMA IdleType == Idle \in Work /\ Idle.pc = "idle" /\ Idle.latest = None
BY NoSpecType DEF Idle, Work

\* A reconcile that returns deletes nothing any more.
LEMMA ReturnType ==
  ASSUME NEW w \in Work
  PROVE  Return(w) \in Work /\ Return(w).doomed = {} /\ Return(w).pc \in {"idle", "status"}
BY IdleType DEF Return, Work, Idle

\* After the deletions a reconcile goes on with what it was given.
LEMMA ProceedType ==
  ASSUME NEW w \in Work
  PROVE  /\ Proceed(w) \in Work
         /\ Proceed(w).doomed \subseteq w.doomed
         /\ Proceed(w).pc # "create"
BY ReturnType DEF Proceed, Work

\* Only listed sets that are not yet terminating are deleted.
LEMMA DeletionType ==
  ASSUME NEW w \in Work, NEW v, NEW ss \in SUBSET Sets
  PROVE  /\ deleteFirewallSets(w, v, ss) \in Work
         /\ deleteFirewallSets(w, v, ss).doomed \subseteq ss \cap Live(v)
         /\ deleteFirewallSets(w, v, ss).pc # "create"
<1> DEFINE d == [w EXCEPT !.doomed = ss \cap Live(v), !.waiting = (ss # {})]
<1>1. d \in Work /\ d.doomed = ss \cap Live(v)
  BY DEF Work, Live
<1> QED
  BY <1>1, ProceedType DEF deleteFirewallSets

LEMMA SubsetTypes ==
  ASSUME NEW v
  PROVE  /\ Existing(v) \subseteq Sets /\ Live(v) \subseteq Existing(v)
         /\ MaxRevisionOf(v) \subseteq Existing(v)
         /\ \A ss \in IntermediateSets(v) : ss \subseteq Existing(v)
BY DEF Existing, Live, MaxRevisionOf, IntermediateSets

LEMMA NewSetType ==
  ASSUME TypeOK
  PROVE  NewSet \in SetObject /\ NewSet.phase = "live"
<1>1. work.latest # None => view[work.latest].rev \in Nat
  BY DEF TypeOK, Work, SetObject
<1>2. setOverrides(work.target, work.latest).replicas \in 0..FirewallMaxReplicas
  BY TargetType DEF TypeOK, Work, setOverrides, FirewallMaxReplicas
<1>3. setOverrides(work.target, work.latest).distance
        \in {FirewallShortestDistance, FirewallRollingUpdateSetDistance}
  BY DEF setOverrides
<1> QED
  BY <1>1, <1>2, <1>3, TargetType DEF TypeOK, NewSet, NextRevision, SetObject, Work

-----------------------------------------------------------------------------
(* Type correctness *)

LEMMA InitType == Init => TypeOK
<1> SUFFICES ASSUME Init PROVE TypeOK
  OBVIOUS
<1>1. PICK i \in Images, r \in Rules, n \in ReplicaCounts, st \in Strategies :
        dep = [phase |-> "present", finalizer |-> FALSE,
               spec |-> [image |-> i, rules |-> r, replicas |-> n, strategy |-> st]]
  BY DEF Init
<1>2. n \in 0..FirewallMaxReplicas /\ st \in {RollingUpdate, Recreate}
  BY ConstantsAssumption
<1>3. dep \in DeploymentObject
  BY <1>1, <1>2 DEF DeploymentObject, DeploymentSpec
<1>4. status \in StatusObject
  BY DEF Init, StatusObject
<1>5. sets \in [Sets -> SetObject] /\ view \in [Sets -> SetObject]
  BY AbsentType DEF Init
<1>6. disturbances \in 0..MaxDisturbances /\ faults \in 0..MaxFaults
  BY ConstantsAssumption DEF Init
<1> QED
  BY <1>3, <1>4, <1>5, <1>6, IdleType DEF Init, TypeOK

LEMMA BeginType == TypeOK /\ Begin => TypeOK'
<1> SUFFICES ASSUME TypeOK, Begin PROVE TypeOK'
  OBVIOUS
<1> USE DEF TypeOK
<1>1. view' \in [Sets -> SetObject]
  BY DEF Begin, ListSets
<1>2. dep' \in DeploymentObject
  BY DEF Begin, DeploymentObject
<1> DEFINE start == [Idle EXCEPT !.target = dep.spec]
           w(l) == [start EXCEPT !.latest = l]
<1>3. start \in Work /\ \A l \in Sets : w(l) \in Work
  <2>1. dep.spec \in Target
    BY DEF DeploymentObject, Target
  <2> QED
    BY <2>1, IdleType DEF Work
<1>4. work' \in Work
  <2>1. CASE work' = [start EXCEPT !.pc = "create"]
    BY <2>1, <1>3 DEF Work
  <2>2. ASSUME NEW l \in MaxRevisionOf(view),
               \/ work' = [w(l) EXCEPT !.pc = "create"]
               \/ work' = [w(l) EXCEPT !.pc = "sync"]
               \/ work' = deleteFirewallSets(w(l), view, Existing(view) \ {l})
        PROVE  work' \in Work
    <3>1. l \in Sets
      BY SubsetTypes
    <3>2. w(l) \in Work
      BY <3>1, <1>3
    <3>3. deleteFirewallSets(w(l), view, Existing(view) \ {l}) \in Work
      BY <3>2, DeletionType, SubsetTypes
    <3>4. [w(l) EXCEPT !.pc = "create"] \in Work /\ [w(l) EXCEPT !.pc = "sync"] \in Work
      BY <3>2 DEF Work
    <3> QED
      BY <2>2, <3>3, <3>4
  <2> QED
    BY <2>1, <2>2 DEF Begin
<1> QED
  BY <1>1, <1>2, <1>4 DEF Begin, env

LEMMA ControllerType ==
  TypeOK /\ Controller => TypeOK'
<1> SUFFICES ASSUME TypeOK, Controller PROVE TypeOK'
  OBVIOUS
<1> USE DEF TypeOK
<1>1. CASE Begin
  BY <1>1, BeginType
<1>2. CASE Delete
  <2>1. view' \in [Sets -> SetObject] /\ dep' \in DeploymentObject
    BY <1>2 DEF Delete, ListSets, DeploymentObject
  <2>2. [Idle EXCEPT !.flow = "finalize"] \in Work
    BY IdleType DEF Work
  <2>3. work' \in Work
    BY <1>2, <2>2, DeletionType, SubsetTypes DEF Delete
  <2> QED
    BY <1>2, <2>1, <2>3 DEF Delete, env
<1>3. ASSUME NEW s \in Sets, createFirewallSet(s) PROVE TypeOK'
  <2>1. sets' \in [Sets -> SetObject]
    BY <1>3, NewSetType DEF createFirewallSet
  <2>2. work' \in Work
    BY <1>3, IdleType, DeletionType, SubsetTypes DEF createFirewallSet
  <2> QED
    BY <1>3, <2>1, <2>2 DEF createFirewallSet, env
<1>4. ASSUME NEW s \in Sets, DeleteSet(s) PROVE TypeOK'
  <2>1. [work EXCEPT !.doomed = @ \ {s}] \in Work
    BY DEF Work
  <2>2. work' \in Work
    BY <1>4, <2>1, ProceedType, ReturnType DEF DeleteSet
  <2>3. sets' \in [Sets -> SetObject]
    BY <1>4 DEF DeleteSet, SetObject
  <2> QED
    BY <1>4, <2>2, <2>3 DEF DeleteSet, env
<1>5. CASE CreationBackedOff
  BY <1>5, ReturnType DEF CreationBackedOff, env
<1>6. CASE syncFirewallSet
  <2>1. sets' \in [Sets -> SetObject]
    <3> DEFINE l == work.latest
               new == [sets[l] EXCEPT !.replicas = work.target.replicas,
                                      !.image = work.target.image,
                                      !.rules = work.target.rules]
    <3>1. CASE sets' = sets
      BY <3>1
    <3>2. CASE sets' = [sets EXCEPT ![l] = new]
      <4>1. ASSUME l \in Sets PROVE new \in SetObject
        <5>1. sets[l] \in SetObject /\ work.target \in Target
          BY <4>1 DEF Work
        <5> HIDE DEF l
        <5> QED
          BY <5>1, TargetType DEF SetObject
      <4>2. CASE l \in Sets
        BY <3>2, <4>1, <4>2
      <4>3. CASE l \notin Sets
        BY <3>2, <4>3
      <4> QED
        BY <4>2, <4>3
    <3> QED
      BY <1>6, <3>1, <3>2 DEF syncFirewallSet
  <2>2. work' \in Work
    <3>1. [work EXCEPT !.pc = "swap"] \in Work
      BY DEF Work
    <3> QED
      BY <1>6, <3>1, ReturnType, DeletionType, SubsetTypes DEF syncFirewallSet
  <2> QED
    BY <1>6, <2>1, <2>2 DEF syncFirewallSet, env
<1>7. CASE SwapDistance
  BY <1>7 DEF SwapDistance, SetObject, Work, env
<1>8. CASE PublishStatus
  <2>1. view' \in [Sets -> SetObject]
    BY <1>8 DEF PublishStatus, Observed
  <2>2. status' \in StatusObject
    BY <1>8, <2>1, SubsetTypes, TargetType
       DEF PublishStatus, Observed, StatusObject, SetObject, Work
  <2> QED
    BY <1>8, <2>1, <2>2, IdleType DEF PublishStatus, env
<1> QED
  BY <1>1, <1>2, <1>3, <1>4, <1>5, <1>6, <1>7, <1>8 DEF Controller

LEMMA EnvironmentType ==
  ASSUME TypeOK,
         \/ Refresh \/ BackoffExpires
         \/ \E s \in Sets : SetReports(s) \/ SetFinalized(s) \/ GarbageCollect(s)
  PROVE  TypeOK'
<1> USE DEF TypeOK, env
<1>1. CASE Refresh \/ BackoffExpires
  BY <1>1 DEF Refresh, BackoffExpires
<1>2. ASSUME NEW s \in Sets, SetReports(s) PROVE TypeOK'
  BY <1>2 DEF SetReports, SetObject
<1>3. ASSUME NEW s \in Sets, SetFinalized(s) PROVE TypeOK'
  BY <1>3, AbsentType DEF SetFinalized
<1>4. ASSUME NEW s \in Sets, GarbageCollect(s) PROVE TypeOK'
  BY <1>4 DEF GarbageCollect, SetObject
<1> QED
  BY <1>1, <1>2, <1>3, <1>4

LEMMA OutsideType ==
  ASSUME TypeOK, Outside
  PROVE  TypeOK'
<1> USE ConstantsAssumption DEF TypeOK
<1>1. CASE ChangeImage
  BY <1>1 DEF ChangeImage, Disturb, UpdateSpec, DeploymentObject, DeploymentSpec
<1>2. CASE ChangeRules
  BY <1>2 DEF ChangeRules, Disturb, UpdateSpec, DeploymentObject, DeploymentSpec
<1>3. CASE Scale
  BY <1>3 DEF Scale, Disturb, UpdateSpec, DeploymentObject, DeploymentSpec
<1>4. CASE ChangeStrategy
  BY <1>4 DEF ChangeStrategy, Disturb, UpdateSpec, DeploymentObject, DeploymentSpec
<1>5. CASE DeleteDeployment
  BY <1>5 DEF DeleteDeployment, Disturb, DeploymentObject
<1>6. ASSUME NEW s \in Sets, RollSet(s) PROVE TypeOK'
  <2>1. [sets[s] EXCEPT !.roll = TRUE] \in SetObject
    <3>1. sets[s] \in SetObject
      OBVIOUS
    <3> QED
      BY <3>1, Zenon DEF SetObject
  <2>2. sets' \in [Sets -> SetObject]
    BY <1>6, <2>1 DEF RollSet
  <2>3. disturbances' \in 0..MaxDisturbances /\ disrupted' \in BOOLEAN
    BY <1>6 DEF RollSet, Disturb
  <2>4. UNCHANGED <<dep, status, view, work, backoff, faults>>
    BY <1>6 DEF RollSet, Disturb
  <2> QED
    BY <2>2, <2>3, <2>4
<1>7. ASSUME NEW s \in Sets, Degrade(s) PROVE TypeOK'
  <2>1. sets' \in [Sets -> SetObject]
    <3>1. PICK n \in 0..FirewallMaxReplicas : sets' = [sets EXCEPT ![s].ready = n]
      BY <1>7 DEF Degrade
    <3>2. [sets[s] EXCEPT !.ready = n] \in SetObject
      BY DEF SetObject
    <3> QED
      BY <3>1, <3>2
  <2>2. disturbances' \in 0..MaxDisturbances /\ disrupted' \in BOOLEAN
    BY <1>7 DEF Degrade, Disturb
  <2>3. UNCHANGED <<dep, status, view, work, backoff, faults>>
    BY <1>7 DEF Degrade, Disturb
  <2> QED
    BY <2>1, <2>2, <2>3
<1> QED
  BY <1>1, <1>2, <1>3, <1>4, <1>5, <1>6, <1>7 DEF Outside

LEMMA FailureType ==
  ASSUME TypeOK, ApiError \/ Restart \/ \E s \in Sets : CreateAnswerLost(s)
  PROVE  TypeOK'
<1> USE ConstantsAssumption, IdleType DEF TypeOK, Fail
<1>1. CASE ApiError
  BY <1>1, ReturnType DEF ApiError
<1>2. CASE Restart
  <2>1. faults' \in 0..MaxFaults
    BY <1>2 DEF Restart
  <2>2. work' \in Work /\ backoff' \in BOOLEAN /\ view' = sets /\ sets' = sets
    BY <1>2 DEF Restart
  <2> QED
    BY <1>2, <2>1, <2>2 DEF Restart
<1>3. ASSUME NEW s \in Sets, CreateAnswerLost(s) PROVE TypeOK'
  BY <1>3, ReturnType, NewSetType DEF CreateAnswerLost
<1> QED
  BY <1>1, <1>2, <1>3

\* Every step keeps every variable in its type and every bound.
LEMMA NextType == TypeOK /\ [Next]_vars => TypeOK'
<1>1. CASE UNCHANGED vars
  BY <1>1 DEF TypeOK, vars
<1> QED
  BY <1>1, ControllerType, EnvironmentType, OutsideType, FailureType DEF Next

\* Type correctness of the deployment controller.
THEOREM TypeCorrect == Spec => []TypeOK
BY InitType, NextType, PTL DEF Spec

-----------------------------------------------------------------------------
(* Unique revisions, and the newest set survives *)

\* Only deployments with a finalizer are worked for, and the finalizer stays
\* until that reconcile is over (generic_controller.go).
WorkIsGuarded ==
  /\ work.pc # "idle" => dep.finalizer /\ dep.phase # "gone"
  /\ dep.phase = "terminating" => dep.finalizer

LEMMA WorkStaysGuarded == Spec => []WorkIsGuarded
<1>1. Init => WorkIsGuarded
  BY IdleType DEF Init, WorkIsGuarded
<1>2. ASSUME TypeOK, WorkIsGuarded, [Next]_vars PROVE WorkIsGuarded'
  <2>1. CASE Begin
    BY <1>2, <2>1 DEF Begin, WorkIsGuarded, TypeOK, DeploymentObject
  <2>2. CASE Delete
    BY <1>2, <2>2, IdleType DEF Delete, WorkIsGuarded, TypeOK, DeploymentObject
  <2>3. CASE dep' = dep /\ (work.pc # "idle" \/ work' = work \/ work' = Idle)
    BY <1>2, <2>3, IdleType DEF WorkIsGuarded
  <2>4. CASE ChangeImage \/ ChangeRules \/ Scale \/ ChangeStrategy \/ DeleteDeployment
    <3>1. work' = work
      BY <2>4 DEF ChangeImage, ChangeRules, Scale, ChangeStrategy, DeleteDeployment, Disturb
    <3>2. CASE DeleteDeployment
      BY <1>2, <3>1, <3>2 DEF DeleteDeployment, WorkIsGuarded, TypeOK, DeploymentObject
    <3>3. CASE \E new : UpdateSpec(new)
      BY <1>2, <3>1, <3>3 DEF UpdateSpec, WorkIsGuarded, TypeOK, DeploymentObject
    <3> QED
      BY <2>4, <3>2, <3>3 DEF ChangeImage, ChangeRules, Scale, ChangeStrategy
  <2>5. ASSUME NEW s \in Sets,
               \/ createFirewallSet(s) \/ DeleteSet(s) \/ SetReports(s) \/ SetFinalized(s)
               \/ GarbageCollect(s) \/ RollSet(s) \/ Degrade(s) \/ CreateAnswerLost(s)
        PROVE  dep' = dep /\ (work.pc # "idle" \/ work' = work \/ work' = Idle)
    BY <2>5 DEF createFirewallSet, DeleteSet, SetReports, SetFinalized, GarbageCollect,
                RollSet, Degrade, CreateAnswerLost, Disturb, Fail
  <2> QED
    BY <1>2, <2>1, <2>2, <2>3, <2>4, <2>5
       DEF Next, Controller, Outside, CreationBackedOff, syncFirewallSet, SwapDistance,
           PublishStatus, Refresh, BackoffExpires, ApiError, Restart, Fail, vars
<1> QED
  BY <1>1, <1>2, TypeCorrect, PTL DEF Spec

\* How a reconcile's record may move on inside a step: it is dropped, kept, or
\* goes on with the same newest set in the same flow and never back to create.
MovesOn(w, n) ==
  \/ n = Idle
  \/ /\ n.latest = w.latest /\ n.flow = w.flow
     /\ n.pc \notin {"create", "idle"}
     /\ n.latest = None => n.pc = "delete"

LEMMA ReturnMovesOn ==
  ASSUME NEW w \in Work PROVE MovesOn(w, Return(w))
BY DEF Return, MovesOn, Work

LEMMA ProceedMovesOn ==
  ASSUME NEW w \in Work PROVE MovesOn(w, Proceed(w))
BY ReturnMovesOn DEF Proceed, MovesOn, Work

LEMMA DeletionMovesOn ==
  ASSUME NEW w \in Work, NEW v, NEW ss \in SUBSET Sets
  PROVE  MovesOn(w, deleteFirewallSets(w, v, ss))
<1> DEFINE d == [w EXCEPT !.doomed = ss \cap Live(v), !.waiting = (ss # {})]
<1>1. d \in Work /\ d.latest = w.latest /\ d.flow = w.flow
  BY DEF Work, Live
<1> QED
  BY <1>1, ProceedMovesOn DEF deleteFirewallSets, MovesOn

\* Everything but one newest and one oldest set is older than some listed set.
LEMMA IntermediateAreOlder ==
  ASSUME NEW v \in [Sets -> SetObject],
         \A s, t \in Existing(v) : v[s].rev = v[t].rev => s = t,
         NEW ss \in IntermediateSets(v), NEW s \in ss
  PROVE  \E m \in Existing(v) : v[s].rev < v[m].rev
<1>1. PICK o \in MinRevisionOf(v), m \in MaxRevisionOf(v) : ss = Existing(v) \ {o, m}
  BY DEF IntermediateSets
<1>2. s \in Existing(v) /\ m \in Existing(v) /\ s # m /\ v[s].rev <= v[m].rev
  BY <1>1 DEF MaxRevisionOf
<1>3. v[s].rev \in Nat /\ v[m].rev \in Nat
  BY <1>2 DEF SetObject, Existing
<1> QED
  BY <1>2, <1>3

LEMMA OlderThanNewest ==
  ASSUME NEW v \in [Sets -> SetObject],
         \A s, t \in Existing(v) : v[s].rev = v[t].rev => s = t,
         NEW l \in MaxRevisionOf(v), NEW s \in Existing(v) \ {l}
  PROVE  \E m \in Existing(v) : v[s].rev < v[m].rev
<1>1. l \in Existing(v) /\ v[s].rev <= v[l].rev /\ s # l
  BY DEF MaxRevisionOf
<1>2. v[s].rev \in Nat /\ v[l].rev \in Nat
  BY <1>1 DEF SetObject, Existing
<1> QED
  BY <1>1, <1>2

\* Steps that neither create nor remove nor delete a set and do not list.
LEMMA QuietStep ==
  ASSUME RevisionInv, TypeOK',
         view' = view, backoff' = backoff,
         \A s \in Sets : sets'[s].phase = sets[s].phase /\ sets'[s].rev = sets[s].rev,
         Managed' => Managed,
         work'.flow = "finalize" => dep'.phase # "present",
         LatestIsNewest',
         \A s \in work'.doomed :
           /\ s \in Existing(view)
           /\ \/ ~Managed' \/ s \in work.doomed
              \/ \E m \in Existing(view) : view[s].rev < view[m].rev
  PROVE  RevisionInv'
<1>1. Existing(sets') = Existing(sets) /\ Live(sets') = Live(sets)
      /\ Existing(view') = Existing(view)
  BY DEF Existing, Live
<1>2. RevisionsUnique' /\ ListedUnique' /\ ViewIsCurrent'
  BY <1>1 DEF RevisionInv, RevisionsUnique, ListedUnique, ViewIsCurrent, Existing
<1>3. ALeaderLives'
  <2>1. CASE ~Managed'
    BY <1>1, <2>1 DEF ALeaderLives
  <2>2. CASE Existing(sets) = {} /\ Existing(view) = {}
    BY <1>1, <2>2 DEF ALeaderLives
  <2>3. ASSUME Managed', NEW l \in Live(sets),
               \A s \in Existing(sets) : sets[s].rev <= sets[l].rev,
               \A s \in Existing(view) : view[s].rev <= sets[l].rev,
               \A s \in work.doomed : view[s].rev < sets[l].rev
        PROVE  ALeaderLives'
    <3>1. l \in Sets /\ l \in Live(sets') /\ sets'[l].rev = sets[l].rev
      BY <1>1 DEF Live
    <3>2. \A s \in Existing(sets) : sets'[s].rev <= sets'[l].rev
      BY <2>3, <3>1 DEF Existing
    <3>3. \A s \in Existing(view) : view[s].rev <= sets'[l].rev
      BY <2>3, <3>1
    <3>4. ASSUME NEW s \in work'.doomed PROVE view[s].rev < sets'[l].rev
      <4>1. CASE s \in work.doomed
        BY <2>3, <3>1, <4>1
      <4>2. ASSUME NEW m \in Existing(view), view[s].rev < view[m].rev, s \in Existing(view)
            PROVE  view[s].rev < sets'[l].rev
        <5>1. view[m].rev <= sets'[l].rev
          BY <3>3
        <5>2. s \in Sets /\ m \in Sets
          BY DEF Existing
        <5>3. view[s].rev \in Nat /\ view[m].rev \in Nat /\ sets'[l].rev \in Nat
          BY <3>1, <5>2 DEF RevisionInv, TypeOK, SetObject
        <5> QED
          BY <4>2, <5>1, <5>3
      <4> QED
        BY <2>3, <4>1, <4>2
    <3> QED
      BY <1>1, <3>1, <3>2, <3>3, <3>4 DEF ALeaderLives
  <2> QED
    BY <2>1, <2>2, <2>3 DEF RevisionInv, ALeaderLives
<1> QED
  BY <1>2, <1>3 DEF RevisionInv

\* The view moves to the present and no reconcile is left that used the old one.
LEMMA RefreshStep ==
  ASSUME RevisionInv, TypeOK', view' = sets, sets' = sets,
         dep'.phase = dep.phase,
         work'.pc = "idle", work'.latest = None, work'.doomed = {},
         work'.flow = "finalize" => dep'.phase # "present"
  PROVE  RevisionInv'
<1>1. RevisionsUnique' /\ ListedUnique' /\ ViewIsCurrent' /\ LatestIsNewest'
  BY DEF RevisionInv, RevisionsUnique, ListedUnique, ViewIsCurrent, LatestIsNewest
<1>2. ALeaderLives'
  BY DEF RevisionInv, ALeaderLives, Managed
<1> QED
  BY <1>1, <1>2 DEF RevisionInv

\* No step takes a deployment back into its care.
LEMMA ManagedKept ==
  ASSUME dep'.phase = "present" => dep.phase = "present",
         work' = work \/ (work.pc # "idle" /\ MovesOn(work, work'))
  PROVE  Managed' => Managed
BY DEF Managed, MovesOn, Idle

\* What LatestIsNewest asks of the record a step ends with.
LEMMA LatestKept ==
  ASSUME RevisionInv, TypeOK', view' = view, MovesOn(work, work')
  PROVE  /\ LatestIsNewest'
         /\ work'.flow = "finalize" => dep.phase # "present"
<1>1. CASE work' = Idle
  BY <1>1 DEF Idle, LatestIsNewest
<1>2. CASE work' # Idle
  BY <1>2 DEF RevisionInv, LatestIsNewest, ALeaderLives, MovesOn
<1> QED
  BY <1>1, <1>2

LEMMA InitRevisions == Init => RevisionInv
<1> SUFFICES ASSUME Init PROVE RevisionInv
  OBVIOUS
<1>1. Existing(sets) = {} /\ Existing(view) = {}
  BY AbsentType DEF Init, Existing
<1>2. work = Idle
  BY DEF Init
<1> QED
  BY <1>1, <1>2, InitType
     DEF RevisionInv, RevisionsUnique, ListedUnique, ViewIsCurrent, LatestIsNewest,
         ALeaderLives, Idle

LEMMA BeginRevisions == RevisionInv /\ Begin => RevisionInv'
<1> SUFFICES ASSUME RevisionInv, Begin PROVE RevisionInv'
  OBVIOUS
<1>1. TypeOK /\ TypeOK'
  BY BeginType DEF RevisionInv
<1>2. view' = view /\ sets' = sets /\ backoff' = backoff /\ dep'.phase = dep.phase
      /\ dep.phase = "present" /\ work.doomed = {} /\ Managed
  BY <1>1 DEF Managed, Begin, ListSets, RevisionInv, LatestIsNewest, TypeOK, DeploymentObject
<1> DEFINE start == [Idle EXCEPT !.target = dep.spec]
           w(l) == [start EXCEPT !.latest = l]
<1>3. start.latest = None /\ start.flow = "reconcile" /\ start.doomed = {}
  BY DEF Idle
<1>4. start \in Work /\ \A l \in Sets : w(l) \in Work
  <2>1. dep.spec \in Target
    BY <1>1 DEF TypeOK, DeploymentObject, Target
  <2> QED
    BY <2>1, IdleType DEF Work
<1>5. CASE /\ Existing(view) = {}
           /\ work' = [start EXCEPT !.pc = "create"]
  <2>1. work'.latest = None /\ work'.flow = "reconcile" /\ work'.doomed = {}
        /\ work'.pc = "create"
    BY <1>5 DEF Idle
  <2>2. LatestIsNewest'
    BY <1>2, <1>5, <2>1 DEF LatestIsNewest
  <2> QED
    BY <1>1, <1>2, <2>1, <2>2, QuietStep
<1>6. ASSUME NEW l \in MaxRevisionOf(view),
             \/ work' = [w(l) EXCEPT !.pc = "create"]
             \/ work' = [w(l) EXCEPT !.pc = "sync"]
             \/ work' = deleteFirewallSets(w(l), view, Existing(view) \ {l})
      PROVE  RevisionInv'
  <2>1. l \in Sets /\ l # None
    BY SubsetTypes, ConstantsAssumption
  <2>2. w(l) \in Work /\ w(l).latest = l /\ w(l).flow = "reconcile" /\ w(l).doomed = {}
    BY <1>4, <2>1 DEF Idle
  <2>3. CASE \/ work' = [w(l) EXCEPT !.pc = "create"]
             \/ work' = [w(l) EXCEPT !.pc = "sync"]
    <3>1. work'.latest = l /\ work'.flow = "reconcile" /\ work'.doomed = {}
          /\ work'.pc \in {"create", "sync"}
      BY <2>2, <2>3 DEF Work
    <3>2. LatestIsNewest'
      BY <1>2, <2>1, <3>1 DEF LatestIsNewest
    <3> QED
      BY <1>1, <1>2, <3>1, <3>2, QuietStep
  <2>4. CASE work' = deleteFirewallSets(w(l), view, Existing(view) \ {l})
    <3> DEFINE old == Existing(view) \ {l}
    <3>0. old \in SUBSET Sets
      BY SubsetTypes
    <3>1. MovesOn(w(l), work') /\ work'.doomed \subseteq old
      BY <2>2, <2>4, <3>0, DeletionMovesOn, DeletionType
    <3>2. LatestIsNewest' /\ work'.flow = "reconcile"
      BY <1>2, <2>1, <2>2, <3>1 DEF MovesOn, Idle, LatestIsNewest
    <3>3. \A s \in work'.doomed :
            s \in Existing(view) /\ \E m \in Existing(view) : view[s].rev < view[m].rev
      BY <1>1, <3>1, OlderThanNewest DEF RevisionInv, ListedUnique, TypeOK
    <3> QED
      BY <1>1, <1>2, <3>2, <3>3, QuietStep
  <2> QED
    BY <1>6, <2>3, <2>4
<1> QED
  BY <1>5, <1>6 DEF Begin

LEMMA DeleteRevisions == RevisionInv /\ Delete => RevisionInv'
<1> SUFFICES ASSUME RevisionInv, Delete PROVE RevisionInv'
  OBVIOUS
<1>1. TypeOK /\ TypeOK'
  BY ControllerType DEF RevisionInv, Controller
<1>2. view' = view /\ sets' = sets /\ backoff' = backoff /\ dep.phase = "terminating"
      /\ work.doomed = {} /\ work.latest = None /\ work.pc = "idle"
  BY DEF Delete, ListSets, RevisionInv, LatestIsNewest
<1>3. dep'.phase # "present"
  BY <1>1, <1>2 DEF Delete, TypeOK, DeploymentObject
<1>4. /\ LatestIsNewest' /\ work'.doomed \subseteq Existing(view)
      /\ work'.pc = "idle" \/ work'.flow = "finalize"
  <2>1. CASE work' = work
    BY <1>2, <2>1 DEF RevisionInv, LatestIsNewest
  <2>2. CASE work' = deleteFirewallSets([Idle EXCEPT !.flow = "finalize"], view, Existing(view))
    <3> DEFINE w == [Idle EXCEPT !.flow = "finalize"]
    <3>1. w \in Work /\ w.latest = None
      BY IdleType DEF Work, Idle
    <3>2. Existing(view) \in SUBSET Sets
      BY SubsetTypes
    <3>3. MovesOn(w, work') /\ work'.doomed \subseteq Existing(view)
      BY <2>2, <3>1, <3>2, DeletionMovesOn, DeletionType
    <3> QED
      BY <3>1, <3>3 DEF MovesOn, Idle, LatestIsNewest
  <2> QED
    BY <2>1, <2>2 DEF Delete
<1>5. ~Managed'
  BY <1>3, <1>4 DEF Managed
<1> QED
  BY <1>1, <1>2, <1>3, <1>4, <1>5, QuietStep

LEMMA CreateRevisions ==
  ASSUME RevisionInv, NEW n \in Sets, createFirewallSet(n)
  PROVE  RevisionInv'
<1>1. TypeOK /\ TypeOK'
  BY ControllerType DEF RevisionInv, Controller
<1>2. view' = view /\ dep' = dep /\ backoff' = TRUE /\ ~backoff /\ work.pc = "create"
  BY DEF createFirewallSet
<1>3. sets' = [sets EXCEPT ![n] = NewSet] /\ n \notin Existing(sets) /\ n \notin Existing(view)
  BY DEF createFirewallSet, Fresh
<1>4. Existing(sets) \subseteq Existing(view)
  BY <1>2 DEF RevisionInv, ViewIsCurrent
<1>5. Existing(sets') = Existing(sets) \cup {n} /\ n \in Live(sets') /\ sets'[n] = NewSet
  BY <1>1, <1>3, NewSetType DEF Existing, Live, TypeOK
<1>6. \A s \in Existing(view) : view[s].rev < NewSet.rev
  <2>1. CASE work.latest = None
    BY <1>2, <2>1 DEF RevisionInv, LatestIsNewest
  <2>2. CASE work.latest # None
    <3>1. work.latest \in MaxRevisionOf(view) /\ NewSet.rev = view[work.latest].rev + 1
      BY <2>2 DEF RevisionInv, LatestIsNewest, NewSet, NextRevision
    <3>2. \A s \in Existing(view) : view[s].rev \in Nat
      BY <1>1 DEF TypeOK, SetObject, Existing
    <3> QED
      BY <3>1, <3>2 DEF MaxRevisionOf
  <2> QED
    BY <2>1, <2>2
<1>7. NewSet.rev \in Nat
  BY <1>1, NewSetType DEF SetObject
<1>8. \A s \in Existing(sets) : sets'[s] = sets[s] /\ sets[s].rev = view[s].rev
                                /\ sets[s].rev < NewSet.rev /\ s # n
  BY <1>3, <1>4, <1>6 DEF RevisionInv, ViewIsCurrent, Existing
<1>9. RevisionsUnique'
  <2>1. \A s, t \in Existing(sets) : sets[s].rev = sets[t].rev => s = t
    BY DEF RevisionInv, RevisionsUnique
  <2>2. \A s \in Existing(sets) : sets[s].rev # NewSet.rev
    <3>1. \A s \in Existing(sets) : sets[s].rev \in Nat
      BY <1>1 DEF TypeOK, SetObject, Existing
    <3> QED
      BY <1>7, <1>8, <3>1
  <2> QED
    BY <1>5, <1>8, <2>1, <2>2 DEF RevisionsUnique
<1>10. ListedUnique' /\ ViewIsCurrent'
  BY <1>2, <1>3, <1>5, <1>8 DEF RevisionInv, ListedUnique, ViewIsCurrent
<1>11. MovesOn(work, work') /\ work'.doomed \subseteq Existing(view)
  <2>1. CASE work' = Idle
    BY <2>1 DEF MovesOn, Idle
  <2>2. ASSUME NEW ss \in SUBSET Sets, work' = deleteFirewallSets(work, view, ss)
        PROVE  MovesOn(work, work') /\ work'.doomed \subseteq Existing(view)
    BY <1>1, <2>2, DeletionMovesOn, DeletionType, SubsetTypes DEF TypeOK
  <2>3. \A ss \in IntermediateSets([view EXCEPT ![n] = NewSet]) : ss \in SUBSET Sets
    BY SubsetTypes
  <2> QED
    BY <2>1, <2>2, <2>3, SubsetTypes DEF createFirewallSet
<1>12. LatestIsNewest' /\ (work'.flow = "finalize" => dep.phase # "present")
  BY <1>1, <1>2, <1>11, LatestKept
<1>13. ALeaderLives'
  <2>1. \A s \in Existing(sets') : sets'[s].rev <= sets'[n].rev
    <3>1. \A s \in Existing(sets) : sets'[s].rev \in Nat
      BY <1>1 DEF TypeOK, SetObject, Existing
    <3> QED
      BY <1>5, <1>7, <1>8, <3>1
  <2>2. \A s \in Existing(view) : view[s].rev <= sets'[n].rev /\ view[s].rev < sets'[n].rev
    <3>1. \A s \in Existing(view) : view[s].rev \in Nat
      BY <1>1 DEF TypeOK, SetObject, Existing
    <3> QED
      BY <1>5, <1>6, <1>7, <3>1
  <2> QED
    BY <1>2, <1>5, <1>11, <1>12, <2>1, <2>2 DEF ALeaderLives
<1> QED
  BY <1>1, <1>9, <1>10, <1>12, <1>13 DEF RevisionInv

\* A set that is about to be deleted is not the leader.
LEMMA DeleteSetRevisions ==
  ASSUME RevisionInv, NEW d \in Sets, DeleteSet(d)
  PROVE  RevisionInv'
<1>1. TypeOK /\ TypeOK'
  BY ControllerType DEF RevisionInv, Controller
<1>2. view' = view /\ dep' = dep /\ backoff' = backoff /\ d \in work.doomed
  BY DEF DeleteSet
<1>3. MovesOn(work, work') /\ work'.doomed \subseteq work.doomed
  <2>1. CASE work' = Return(work)
    BY <1>1, <2>1, ReturnMovesOn, ReturnType DEF TypeOK
  <2>2. CASE work' = Proceed([work EXCEPT !.doomed = @ \ {d}])
    <3> DEFINE w == [work EXCEPT !.doomed = @ \ {d}]
    <3>1. w \in Work /\ w.latest = work.latest /\ w.flow = work.flow
          /\ w.doomed \subseteq work.doomed
      BY <1>1 DEF TypeOK, Work
    <3>2. MovesOn(w, work') /\ work'.doomed \subseteq w.doomed
      BY <2>2, <3>1, ProceedMovesOn, ProceedType
    <3> QED
      BY <3>1, <3>2 DEF MovesOn
  <2> QED
    BY <2>1, <2>2 DEF DeleteSet
<1>4. LatestIsNewest' /\ (work'.flow = "finalize" => dep.phase # "present")
  BY <1>1, <1>2, <1>3, LatestKept
<1>7. Managed' => Managed
  BY <1>2, <1>3, ManagedKept DEF DeleteSet
<1>5. CASE sets' = sets
  BY <1>1, <1>2, <1>3, <1>4, <1>5, <1>7, QuietStep DEF RevisionInv, ALeaderLives
<1>6. CASE sets[d].phase # "absent" /\ sets' = [sets EXCEPT ![d].phase = "terminating"]
  <2>1. \A s \in Sets : sets'[s].rev = sets[s].rev
    BY <1>1, <1>6 DEF TypeOK, SetObject
  <2>2. Existing(sets') = Existing(sets) /\ Live(sets) \ {d} \subseteq Live(sets')
    BY <1>1, <1>6 DEF TypeOK, SetObject, Existing, Live
  <2>3. RevisionsUnique' /\ ListedUnique' /\ ViewIsCurrent'
    BY <1>2, <2>1, <2>2 DEF RevisionInv, RevisionsUnique, ListedUnique, ViewIsCurrent, Existing
  <2>4. ALeaderLives'
    <3>1. work'.doomed \subseteq Existing(view)
      BY <1>3 DEF RevisionInv, ALeaderLives
    <3>2. CASE ~Managed
      BY <1>2, <1>4, <1>7, <3>1, <3>2 DEF ALeaderLives
    <3>3. CASE Existing(sets) = {}
      BY <1>6, <3>3 DEF Existing
    <3>4. ASSUME NEW l \in Live(sets),
                 \A s \in Existing(sets) : sets[s].rev <= sets[l].rev,
                 \A s \in Existing(view) : view[s].rev <= sets[l].rev,
                 \A s \in work.doomed : view[s].rev < sets[l].rev
          PROVE  ALeaderLives'
      <4>1. d \in Existing(view) /\ d \in Existing(sets) /\ view[d].rev < sets[l].rev
        BY <1>2, <1>6, <3>4 DEF RevisionInv, ALeaderLives, Existing
      <4>2. sets[d].rev = view[d].rev /\ view[d].rev \in Nat
        BY <1>1, <4>1 DEF RevisionInv, ViewIsCurrent, TypeOK, SetObject
      <4>3. l # d /\ l \in Sets
        BY <4>1, <4>2 DEF Live
      <4>4. l \in Live(sets') /\ sets'[l].rev = sets[l].rev
        BY <2>1, <2>2, <4>3
      <4>5. \A s \in Existing(sets') : sets'[s].rev <= sets'[l].rev
        BY <2>1, <2>2, <3>4, <4>4 DEF Existing
      <4>6. \A s \in work'.doomed : view[s].rev < sets'[l].rev
        BY <1>3, <3>4, <4>4
      <4> QED
        BY <1>2, <1>4, <3>1, <3>4, <4>4, <4>5, <4>6 DEF ALeaderLives
    <3> QED
      BY <3>2, <3>3, <3>4 DEF RevisionInv, ALeaderLives
  <2> QED
    BY <1>1, <1>4, <2>3, <2>4 DEF RevisionInv
<1> QED
  BY <1>5, <1>6 DEF DeleteSet

LEMMA SyncRevisions == RevisionInv /\ syncFirewallSet => RevisionInv'
<1> SUFFICES ASSUME RevisionInv, syncFirewallSet PROVE RevisionInv'
  OBVIOUS
<1>1. TypeOK /\ TypeOK'
  BY ControllerType DEF RevisionInv, Controller
<1> DEFINE l == work.latest
<1>2. view' = view /\ dep' = dep /\ backoff' = backoff
  BY DEF syncFirewallSet
<1>3. \A s \in Sets : sets'[s].phase = sets[s].phase /\ sets'[s].rev = sets[s].rev
  <2>1. CASE sets' = sets
    BY <2>1
  <2>2. CASE sets' = [sets EXCEPT ![l] = [@ EXCEPT !.replicas = work.target.replicas,
                                                   !.image = work.target.image,
                                                   !.rules = work.target.rules]]
    BY <1>1, <2>2 DEF TypeOK, SetObject
  <2> QED
    BY <2>1, <2>2 DEF syncFirewallSet
<1>4. l # None /\ l \in MaxRevisionOf(view)
  BY DEF RevisionInv, LatestIsNewest, syncFirewallSet
<1>5. /\ MovesOn(work, work')
      /\ \A s \in work'.doomed :
           /\ s \in Existing(view)
           /\ ~Managed' \/ s \in work.doomed
              \/ \E m \in Existing(view) : view[s].rev < view[m].rev
  <2>1. CASE work' = Return(work)
    BY <1>1, <2>1, ReturnMovesOn, ReturnType DEF TypeOK
  <2>2. CASE work' = [work EXCEPT !.pc = "swap"]
    BY <1>1, <1>4, <2>2 DEF TypeOK, Work, MovesOn, RevisionInv, ALeaderLives
  <2>3. ASSUME NEW ss \in SUBSET Existing(view), work' = deleteFirewallSets(work, view, ss),
               \A s \in ss : \E m \in Existing(view) : view[s].rev < view[m].rev
        PROVE  <1>5!2 /\ MovesOn(work, work')
    <3>1. ss \in SUBSET Sets
      BY SubsetTypes
    <3> QED
      BY <1>1, <2>3, <3>1, DeletionMovesOn, DeletionType DEF TypeOK
  <2>4. CASE AllReady(view[l]) /\ work' = deleteFirewallSets(work, view, Existing(view) \ {l})
    <3>1. \A s \in Existing(view) \ {l} : \E m \in Existing(view) : view[s].rev < view[m].rev
      BY <1>1, <1>4, OlderThanNewest DEF RevisionInv, ListedUnique, TypeOK
    <3> QED
      BY <2>3, <2>4, <3>1
  <2>5. ASSUME NEW ss \in IntermediateSets(view), work' = deleteFirewallSets(work, view, ss)
        PROVE  <1>5!2 /\ MovesOn(work, work')
    BY <1>1, <2>3, <2>5, IntermediateAreOlder, SubsetTypes
       DEF RevisionInv, ListedUnique, TypeOK
  <2> QED
    BY <2>1, <2>2, <2>4, <2>5 DEF syncFirewallSet
<1>6. LatestIsNewest' /\ (work'.flow = "finalize" => dep.phase # "present")
  BY <1>1, <1>2, <1>5, LatestKept
<1>7. Managed' => Managed
  BY <1>2, <1>5, ManagedKept DEF syncFirewallSet
<1> QED
  BY <1>1, <1>2, <1>3, <1>5, <1>6, <1>7, QuietStep

\* The other steps of the reconciler create and delete nothing.
LEMMA ControllerRevisions == RevisionInv /\ Controller => RevisionInv'
<1> SUFFICES ASSUME RevisionInv, Controller PROVE RevisionInv'
  OBVIOUS
<1>1. TypeOK /\ TypeOK'
  BY ControllerType DEF RevisionInv
<1>2. CASE CreationBackedOff
  <2>1. MovesOn(work, work') /\ work'.doomed = {}
    BY <1>1, <1>2, ReturnMovesOn, ReturnType DEF CreationBackedOff, TypeOK
  <2>2. view' = view /\ sets' = sets /\ dep' = dep /\ backoff' = backoff
    BY <1>2 DEF CreationBackedOff
  <2>3. Managed' => Managed
    BY <1>2, <2>1, <2>2, ManagedKept DEF CreationBackedOff
  <2> QED
    BY <1>1, <2>1, <2>2, <2>3, LatestKept, QuietStep
<1>3. CASE SwapDistance
  <2>1. work.latest # None
    BY <1>3 DEF SwapDistance, RevisionInv, LatestIsNewest
  <2>2. MovesOn(work, work') /\ work'.doomed = work.doomed
    BY <1>1, <1>3, <2>1 DEF SwapDistance, TypeOK, Work, MovesOn
  <2>3. view' = view /\ dep' = dep /\ backoff' = backoff
    BY <1>3 DEF SwapDistance
  <2>4. \A s \in Sets : sets'[s].phase = sets[s].phase /\ sets'[s].rev = sets[s].rev
    BY <1>1, <1>3 DEF SwapDistance, TypeOK, SetObject
  <2>5. Managed' => Managed
    BY <1>3, <2>2, <2>3, ManagedKept DEF SwapDistance
  <2> QED
    BY <1>1, <2>2, <2>3, <2>4, <2>5, LatestKept, QuietStep DEF RevisionInv, ALeaderLives
<1>4. CASE PublishStatus
  <2>1. sets' = sets /\ dep' = dep /\ backoff' = backoff /\ work' = Idle
        /\ (view' = view \/ view' = sets)
    BY <1>4 DEF PublishStatus, Observed
  <2>2. work'.pc = "idle" /\ work'.latest = None /\ work'.doomed = {} /\ work'.flow = "reconcile"
    BY <2>1 DEF Idle
  <2>3. CASE view' = view
    <3>1. LatestIsNewest'
      BY <2>2 DEF LatestIsNewest
    <3>2. Managed' => Managed
      BY <2>1, <2>2 DEF Managed
    <3> QED
      BY <1>1, <2>1, <2>2, <2>3, <3>1, <3>2, QuietStep
  <2>4. CASE view' = sets
    BY <1>1, <2>1, <2>2, <2>4, RefreshStep
  <2> QED
    BY <2>1, <2>3, <2>4
<1> QED
  BY <1>2, <1>3, <1>4, BeginRevisions, DeleteRevisions, CreateRevisions,
     DeleteSetRevisions, SyncRevisions DEF Controller

\* The leader is not terminating, so it never goes away.
LEMMA FinalizedRevisions ==
  ASSUME RevisionInv, NEW g \in Sets, SetFinalized(g)
  PROVE  RevisionInv'
<1>1. TypeOK /\ TypeOK'
  BY EnvironmentType DEF RevisionInv
<1>2. view' = view /\ dep' = dep /\ backoff' = backoff /\ work' = work
      /\ sets' = [sets EXCEPT ![g] = Absent] /\ g \notin Live(sets)
  BY DEF SetFinalized, Live
<1>3. /\ Existing(sets') = Existing(sets) \ {g} /\ Live(sets') = Live(sets)
      /\ \A s \in Existing(sets') : sets'[s] = sets[s]
  BY <1>1, <1>2, AbsentType DEF Existing, Live, TypeOK
<1>4. RevisionsUnique' /\ ListedUnique' /\ ViewIsCurrent' /\ LatestIsNewest'
  <2>1. RevisionsUnique'
    BY <1>3 DEF RevisionInv, RevisionsUnique
  <2>2. ListedUnique' /\ LatestIsNewest'
    BY <1>2 DEF RevisionInv, ListedUnique, LatestIsNewest
  <2>3. ViewIsCurrent'
    BY <1>2, <1>3 DEF RevisionInv, ViewIsCurrent
  <2> QED
    BY <2>1, <2>2, <2>3
<1>5. ALeaderLives'
  <2>1. CASE ~Managed \/ (Existing(sets) = {} /\ Existing(view) = {})
    BY <1>2, <1>3, <2>1 DEF RevisionInv, ALeaderLives, Managed
  <2>2. ASSUME NEW l \in Live(sets),
               \A s \in Existing(sets) : sets[s].rev <= sets[l].rev,
               \A s \in Existing(view) : view[s].rev <= sets[l].rev,
               \A s \in work.doomed : view[s].rev < sets[l].rev
        PROVE  ALeaderLives'
    <3>1. l \in Live(sets') /\ sets'[l] = sets[l]
      BY <1>2, <1>3, SubsetTypes
    <3> QED
      BY <1>2, <1>3, <2>2, <3>1 DEF RevisionInv, ALeaderLives
  <2> QED
    BY <2>1, <2>2 DEF RevisionInv, ALeaderLives
<1> QED
  BY <1>1, <1>4, <1>5 DEF RevisionInv

LEMMA EnvironmentRevisions ==
  ASSUME RevisionInv, WorkIsGuarded,
         \/ Refresh \/ BackoffExpires
         \/ \E s \in Sets : SetReports(s) \/ SetFinalized(s) \/ GarbageCollect(s)
  PROVE  RevisionInv'
<1>1. TypeOK /\ TypeOK'
  BY EnvironmentType DEF RevisionInv
<1>2. CASE Refresh
  <2>1. view' = sets /\ sets' = sets /\ dep' = dep /\ work' = work
    BY <1>2 DEF Refresh
  <2>2. work.pc = "idle" /\ work.latest = None /\ work.doomed = {}
        /\ (work.flow = "finalize" => dep.phase # "present")
    BY <1>2 DEF Refresh, RevisionInv, LatestIsNewest, ALeaderLives
  <2> QED
    BY <1>1, <2>1, <2>2, RefreshStep
<1>3. CASE BackoffExpires
  BY <1>1, <1>3 DEF BackoffExpires, BackoffOver, RevisionInv, RevisionsUnique, ListedUnique,
                    ViewIsCurrent, LatestIsNewest, ALeaderLives, Managed
<1>4. ASSUME NEW s \in Sets, SetReports(s) PROVE RevisionInv'
  <2>1. view' = view /\ dep' = dep /\ backoff' = backoff /\ work' = work
    BY <1>4 DEF SetReports
  <2>2. \A t \in Sets : sets'[t].phase = sets[t].phase /\ sets'[t].rev = sets[t].rev
    BY <1>1, <1>4 DEF SetReports, TypeOK, SetObject
  <2>3. LatestIsNewest'
    BY <2>1 DEF RevisionInv, LatestIsNewest
  <2>4. Managed' => Managed
    BY <2>1 DEF Managed
  <2> QED
    BY <1>1, <2>1, <2>2, <2>3, <2>4, QuietStep DEF RevisionInv, ALeaderLives
<1>5. ASSUME NEW s \in Sets, GarbageCollect(s) PROVE RevisionInv'
  <2>1. view' = view /\ dep' = dep /\ backoff' = backoff /\ work' = work
        /\ ~Managed'
    BY <1>5 DEF GarbageCollect, WorkIsGuarded, Managed
  <2>2. Existing(sets') = Existing(sets) /\ \A t \in Sets : sets'[t].rev = sets[t].rev
    BY <1>1, <1>5 DEF GarbageCollect, TypeOK, SetObject, Existing
  <2> QED
    BY <1>1, <2>1, <2>2 DEF RevisionInv, RevisionsUnique, ListedUnique, ViewIsCurrent,
                            LatestIsNewest, ALeaderLives, Existing
<1> QED
  BY <1>2, <1>3, <1>4, <1>5, FinalizedRevisions

\* Users touch neither the life cycle nor the revision of a set.
LEMMA OutsideRevisions == RevisionInv /\ Outside => RevisionInv'
<1> SUFFICES ASSUME RevisionInv, Outside PROVE RevisionInv'
  OBVIOUS
<1>1. TypeOK /\ TypeOK'
  BY OutsideType DEF RevisionInv
<1>2. view' = view /\ backoff' = backoff /\ work' = work
  BY DEF Outside, ChangeImage, ChangeRules, Scale, ChangeStrategy, DeleteDeployment,
         RollSet, Degrade, Disturb
<1>3. dep'.phase = "present" => dep.phase = "present"
  <2>1. CASE dep' = dep
    BY <2>1
  <2>2. CASE dep.phase = "present"
    BY <2>2
  <2> QED
    BY <2>1, <2>2 DEF Outside, ChangeImage, ChangeRules, Scale, ChangeStrategy,
                      DeleteDeployment, RollSet, Degrade, UpdateSpec
<1>4. \A s \in Sets : sets'[s].phase = sets[s].phase /\ sets'[s].rev = sets[s].rev
  <2>1. CASE sets' = sets
    BY <2>1
  <2>2. ASSUME NEW s \in Sets, RollSet(s) \/ Degrade(s) PROVE <1>4
    BY <1>1, <2>2 DEF RollSet, Degrade, TypeOK, SetObject
  <2> QED
    BY <2>1, <2>2 DEF Outside, ChangeImage, ChangeRules, Scale, ChangeStrategy,
                      DeleteDeployment, UpdateSpec
<1>5. LatestIsNewest'
  BY <1>2 DEF RevisionInv, LatestIsNewest
<1>6. Managed' => Managed
  BY <1>2, <1>3 DEF Managed
<1> QED
  BY <1>1, <1>2, <1>3, <1>4, <1>5, <1>6, QuietStep DEF RevisionInv, ALeaderLives

LEMMA FailureRevisions ==
  ASSUME RevisionInv, "lostAnswer" \notin Faults,
         ApiError \/ Restart \/ \E s \in Sets : CreateAnswerLost(s)
  PROVE  RevisionInv'
<1>1. TypeOK /\ TypeOK'
  BY FailureType DEF RevisionInv
<1>2. CASE ApiError
  <2>1. view' = view /\ sets' = sets /\ dep' = dep /\ backoff' = backoff
    BY <1>2 DEF ApiError, Fail
  <2>2. MovesOn(work, work') /\ work'.doomed = {}
    <3>1. CASE work' = Idle
      BY <3>1 DEF MovesOn, Idle
    <3>2. CASE work' = Return(work)
      BY <1>1, <3>2, ReturnMovesOn, ReturnType DEF TypeOK
    <3> QED
      BY <1>2, <3>1, <3>2 DEF ApiError
  <2>3. Managed' => Managed
    BY <1>2, <2>1, <2>2, ManagedKept DEF ApiError
  <2> QED
    BY <1>1, <2>1, <2>2, <2>3, LatestKept, QuietStep
<1>3. CASE Restart
  <2>1. sets' = sets /\ view' = sets /\ dep' = dep /\ work' = Idle
    BY <1>3 DEF Restart, Fail
  <2> QED
    BY <1>1, <2>1, RefreshStep DEF Idle
<1>4. ASSUME NEW s \in Sets PROVE ~CreateAnswerLost(s)
  BY DEF CreateAnswerLost, Fail
<1> QED
  BY <1>2, <1>3, <1>4

\* RevisionInv is inductive as long as no answer to a create call is lost.
LEMMA NextRevisions ==
  ASSUME "lostAnswer" \notin Faults
  PROVE  RevisionInv /\ WorkIsGuarded /\ [Next]_vars => RevisionInv'
<1>1. ASSUME RevisionInv, UNCHANGED vars PROVE RevisionInv'
  BY <1>1 DEF vars, RevisionInv, TypeOK, RevisionsUnique, ListedUnique, ViewIsCurrent,
              LatestIsNewest, ALeaderLives, Managed
<1> QED
  BY <1>1, ControllerRevisions, EnvironmentRevisions, OutsideRevisions, FailureRevisions
     DEF Next

\* The inductive invariant holds always, unless the answer to a create call is
\* lost: the safety backoff is what keeps the stale cache harmless.
THEOREM RevisionInvariant ==
  ASSUME "lostAnswer" \notin Faults
  PROVE  Spec => []RevisionInv
<1>1. RevisionInv /\ WorkIsGuarded /\ [Next]_vars => RevisionInv'
  BY NextRevisions
<1> QED
  BY <1>1, InitRevisions, WorkStaysGuarded, PTL DEF Spec

\* No roll is carried out twice, for any number of sets and changes, with
\* stale lists, failing calls and restarts (createFirewallSet, NextRevision).
THEOREM RevisionsStayUnique ==
  ASSUME "lostAnswer" \notin Faults
  PROVE  Spec => []RevisionsUnique
<1>1. RevisionInv => RevisionsUnique
  BY DEF RevisionInv
<1> QED
  BY <1>1, RevisionInvariant, PTL

\* The set that a step takes away is never the newest one (cleanupIntermediateSets,
\* rollingUpdateStrategy, recreateStrategy).
LEMMA StepSparesNewest ==
  ASSUME RevisionInv, RevisionInv', Next,
         dep.phase = "present",
         NEW s \in MaxRevisionOf(sets), sets[s].phase = "live"
  PROVE  sets'[s].phase = "live"
<1>1. TypeOK /\ s \in Sets /\ s \in Existing(sets)
  BY SubsetTypes DEF RevisionInv
<1>2. ASSUME NEW d \in Sets, DeleteSet(d) PROVE sets'[s].phase = "live"
  <2>1. CASE sets' = sets
    BY <2>1
  <2>2. CASE sets[d].phase # "absent" /\ sets' = [sets EXCEPT ![d].phase = "terminating"]
    <3>1. s # d
      <4>1. PICK l \in Live(sets) : \A t \in work.doomed : view[t].rev < sets[l].rev
        BY <1>1 DEF RevisionInv, ALeaderLives, Managed
      <4>2. d \in Existing(sets) /\ d \in Existing(view) /\ l \in Existing(sets)
            /\ l \in Sets /\ d \in work.doomed
        BY <1>2, <2>2, SubsetTypes DEF DeleteSet, RevisionInv, ALeaderLives, Existing
      <4>3. sets[d].rev = view[d].rev /\ view[d].rev < sets[l].rev
        BY <4>1, <4>2 DEF RevisionInv, ViewIsCurrent
      <4>4. sets[l].rev <= sets[s].rev
        BY <4>2 DEF MaxRevisionOf
      <4>5. sets[d].rev \in Nat /\ sets[l].rev \in Nat /\ sets[s].rev \in Nat
        BY <1>1, <4>2 DEF TypeOK, SetObject
      <4> QED
        BY <4>3, <4>4, <4>5
    <3> QED
      BY <1>1, <2>2, <3>1 DEF TypeOK
  <2> QED
    BY <1>2, <2>1, <2>2 DEF DeleteSet
<1>3. ASSUME NEW n \in Sets, createFirewallSet(n) \/ CreateAnswerLost(n)
      PROVE  sets'[s].phase = "live"
  <2>1. s # n /\ sets' = [sets EXCEPT ![n] = NewSet]
    BY <1>1, <1>3 DEF createFirewallSet, CreateAnswerLost, Fresh
  <2> QED
    BY <1>1, <2>1 DEF TypeOK
<1>4. ASSUME NEW g \in Sets, SetReports(g) \/ SetFinalized(g) \/ RollSet(g) \/ Degrade(g)
      PROVE  sets'[s].phase = "live"
  BY <1>1, <1>4 DEF SetReports, SetFinalized, RollSet, Degrade, TypeOK, SetObject
<1>5. CASE syncFirewallSet
  <2> DEFINE l == work.latest
             new == [sets[l] EXCEPT !.replicas = work.target.replicas,
                                    !.image = work.target.image,
                                    !.rules = work.target.rules]
  <2>1. new.phase = sets[l].phase
    BY <1>1, ConstantsAssumption DEF TypeOK, SetObject, RevisionInv, LatestIsNewest
  <2>2. sets' = sets \/ sets' = [sets EXCEPT ![l] = new]
    BY <1>5 DEF syncFirewallSet
  <2> QED
    BY <1>1, <2>1, <2>2 DEF TypeOK
<1>6. CASE SwapDistance
  BY <1>1, <1>6 DEF SwapDistance, TypeOK, SetObject
<1>7. CASE sets' = sets
  BY <1>7
<1>8. ASSUME NEW g \in Sets PROVE ~GarbageCollect(g)
  BY DEF GarbageCollect
<1> QED
  BY <1>2, <1>3, <1>4, <1>5, <1>6, <1>7, <1>8
     DEF Next, Controller, Outside, Begin, Delete, CreationBackedOff, PublishStatus,
         Refresh, BackoffExpires, ChangeImage, ChangeRules, Scale, ChangeStrategy,
         DeleteDeployment, UpdateSpec, ApiError, Restart

\* While the deployment exists its newest set is never deleted, however stale
\* the list was that the deletion was decided on.
THEOREM NewestIsSpared ==
  ASSUME "lostAnswer" \notin Faults
  PROVE  Spec => NewestSurvives
<1> DEFINE A == \A s \in MaxRevisionOf(sets) :
                  dep.phase = "present" /\ sets[s].phase = "live" => sets'[s].phase = "live"
<1>1. RevisionInv /\ RevisionInv' /\ [Next]_vars => [A]_vars
  BY StepSparesNewest
<1>2. Spec => [][Next]_vars
  BY PTL DEF Spec
<1>3. Spec => [][A]_vars
  BY <1>1, <1>2, RevisionInvariant, PTL
<1> QED
  BY <1>3, PTL DEF NewestSurvives

\* Only the deletion flow makes the deployment go away, and only when it listed
\* no set.
LEMMA StepGuardsSets ==
  ASSUME RevisionInv, RevisionInv', Next,
         dep.phase = "terminating", dep'.phase = "gone", ~backoff
  PROVE  Existing(sets) = {}
<1>1. CASE Delete
  <2>1. Existing(view) = {}
    BY <1>1 DEF Delete, Remaining
  <2> QED
    BY <2>1 DEF RevisionInv, ViewIsCurrent
<1>2. CASE dep' = dep
  BY <1>2
<1>3. CASE dep.phase = "present"
  BY <1>3
<1>4. ASSUME NEW g \in Sets, RollSet(g) \/ Degrade(g) \/ CreateAnswerLost(g)
      PROVE  dep' = dep
  BY <1>4 DEF RollSet, Degrade, CreateAnswerLost, Fail
<1>5. ASSUME NEW g \in Sets, SetReports(g) \/ SetFinalized(g) \/ GarbageCollect(g)
             \/ createFirewallSet(g) \/ DeleteSet(g)
      PROVE  dep' = dep
  BY <1>5 DEF SetReports, SetFinalized, GarbageCollect, createFirewallSet, DeleteSet
<1> QED
  BY <1>1, <1>2, <1>3, <1>4, <1>5
     DEF Next, Controller, Outside, Begin, CreationBackedOff, syncFirewallSet, SwapDistance,
         PublishStatus, Refresh, BackoffExpires, ChangeImage, ChangeRules, Scale,
         ChangeStrategy, DeleteDeployment, UpdateSpec, ApiError, Fail, Restart

\* The finalizer of a deployment outlives its sets, but for one that was created
\* within the safety backoff (the deletion flow in delete.go).
THEOREM FinalizerOutlivesSets ==
  ASSUME "lostAnswer" \notin Faults
  PROVE  Spec => FinalizerGuardsSets
<1> DEFINE A == dep.phase = "terminating" /\ dep'.phase = "gone" /\ ~backoff
                => Existing(sets) = {}
<1>1. RevisionInv /\ RevisionInv' /\ [Next]_vars => [A]_vars
  BY StepGuardsSets
<1>2. Spec => [][Next]_vars
  BY PTL DEF Spec
<1>3. Spec => [][A]_vars
  BY <1>1, <1>2, RevisionInvariant, PTL
<1> QED
  BY <1>3, PTL DEF FinalizerGuardsSets

-----------------------------------------------------------------------------
(* The observed revision *)

\* A published revision is not above those of the list, as long as anything may
\* be published.
Tracked == Managed => status.rev = 0 \/ \E m \in Existing(view) : status.rev <= view[m].rev

StatusInv == RevisionInv /\ WorkIsGuarded /\ Tracked

LEMMA NeverManagedAgain ==
  ASSUME RevisionInv, Next
  PROVE  Managed' => Managed
<1>1. TypeOK /\ work \in Work /\ dep \in DeploymentObject
  BY DEF RevisionInv, TypeOK
<1>2. CASE Begin
  BY <1>2 DEF Begin, Managed
<1>3. CASE Delete
  <2>1. dep'.phase # "present"
    BY <1>1, <1>3 DEF Delete, DeploymentObject
  <2>2. CASE work' = work
    BY <2>1, <2>2 DEF Managed
  <2>3. CASE work' = deleteFirewallSets([Idle EXCEPT !.flow = "finalize"], view, Existing(view))
    <3> DEFINE w == [Idle EXCEPT !.flow = "finalize"]
    <3>1. w \in Work /\ w.flow = "finalize" /\ Existing(view) \in SUBSET Sets
      BY IdleType, SubsetTypes DEF Work
    <3>2. MovesOn(w, work')
      BY <2>3, <3>1, DeletionMovesOn
    <3>3. work' = Idle \/ work'.flow = "finalize"
      BY <3>1, <3>2 DEF MovesOn
    <3> QED
      BY <2>1, <3>3, IdleType DEF Managed
  <2> QED
    BY <1>3, <2>2, <2>3 DEF Delete
<1>4. CASE Outside
  <2>1. work' = work
    BY <1>4 DEF Outside, ChangeImage, ChangeRules, Scale, ChangeStrategy, DeleteDeployment,
                RollSet, Degrade, Disturb
  <2>2. dep' = dep \/ dep.phase = "present"
    BY <1>4 DEF Outside, ChangeImage, ChangeRules, Scale, ChangeStrategy, DeleteDeployment,
                RollSet, Degrade, UpdateSpec
  <2> QED
    BY <2>1, <2>2 DEF Managed
<1>5. CASE dep' = dep /\ (work' = work \/ work' = Idle)
  BY <1>5, IdleType DEF Managed
<1>6. ASSUME work.pc # "idle", MovesOn(work, work'), dep' = dep PROVE Managed' => Managed
  BY <1>6, ManagedKept
<1>7. ASSUME NEW s \in Sets, createFirewallSet(s) PROVE Managed' => Managed
  <2>1. work.pc # "idle" /\ dep' = dep
    BY <1>7 DEF createFirewallSet
  <2>2. work' = Idle \/ \E ss \in SUBSET Sets : work' = deleteFirewallSets(work, view, ss)
    BY <1>7, SubsetTypes DEF createFirewallSet
  <2> QED
    BY <1>1, <1>5, <1>6, <2>1, <2>2, DeletionMovesOn
<1>8. ASSUME NEW s \in Sets, DeleteSet(s) PROVE Managed' => Managed
  <2> DEFINE w == [work EXCEPT !.doomed = @ \ {s}]
  <2>1. w \in Work /\ w.flow = work.flow /\ w.latest = work.latest
    BY <1>1 DEF Work
  <2>2. work' = Return(work) \/ work' = Proceed(w)
    BY <1>8 DEF DeleteSet
  <2>3. MovesOn(work, work')
    <3>1. CASE work' = Return(work)
      BY <1>1, <3>1, ReturnMovesOn
    <3>2. CASE work' = Proceed(w)
      <4> HIDE DEF w
      <4>1. MovesOn(w, work')
        BY <2>1, <3>2, ProceedMovesOn
      <4> QED
        BY <2>1, <4>1 DEF MovesOn
    <3> QED
      BY <2>2, <3>1, <3>2
  <2> QED
    BY <1>6, <1>8, <2>3 DEF DeleteSet
<1>9. CASE syncFirewallSet
  <2>1. work.pc # "idle" /\ dep' = dep
    BY <1>9 DEF syncFirewallSet
  <2>2. CASE work' = [work EXCEPT !.pc = "swap"]
    <3>1. work.latest # None
      BY <1>9 DEF syncFirewallSet, RevisionInv, LatestIsNewest
    <3>2. MovesOn(work, work')
      BY <1>1, <2>2, <3>1 DEF Work, MovesOn
    <3> QED
      BY <1>6, <2>1, <3>2
  <2>3. CASE work' = Return(work) \/ \E ss \in SUBSET Sets : work' = deleteFirewallSets(work, view, ss)
    BY <1>1, <1>6, <2>1, <2>3, ReturnMovesOn, DeletionMovesOn
  <2> QED
    BY <1>9, <2>2, <2>3, SubsetTypes DEF syncFirewallSet
<1>10. CASE SwapDistance
  <2>1. work.latest # None /\ work.pc # "idle" /\ dep' = dep
    BY <1>10 DEF SwapDistance, RevisionInv, LatestIsNewest
  <2>2. MovesOn(work, work')
    BY <1>1, <1>10, <2>1 DEF SwapDistance, Work, MovesOn
  <2> QED
    BY <1>6, <2>1, <2>2
<1>11. CASE CreationBackedOff \/ ApiError \/ \E s \in Sets : CreateAnswerLost(s)
  <2>1. /\ work.pc # "idle" /\ dep' = dep /\ (work' = Idle \/ work' = Return(work))
    BY <1>11 DEF CreationBackedOff, ApiError, CreateAnswerLost, Fail
  <2> QED
    BY <1>1, <1>5, <1>6, <2>1, ReturnMovesOn
<1>12. CASE PublishStatus \/ Restart \/ Refresh \/ BackoffExpires
            \/ \E s \in Sets : SetReports(s) \/ SetFinalized(s) \/ GarbageCollect(s)
  BY <1>5, <1>12 DEF PublishStatus, Restart, Fail, Refresh, BackoffExpires, SetReports,
                     SetFinalized, GarbageCollect
<1> QED
  BY <1>2, <1>3, <1>4, <1>7, <1>8, <1>9, <1>10, <1>11, <1>12 DEF Next, Controller

\* What was published is covered by the sets that there are, as it is by the list.
LEMMA TrackedBySets ==
  ASSUME StatusInv, Managed
  PROVE  \/ status.rev = 0 /\ Existing(sets) = {}
         \/ \E l \in Live(sets) :
              status.rev <= sets[l].rev /\ \A s \in Existing(sets) : sets[s].rev <= sets[l].rev
<1>1. /\ status.rev \in Nat
      /\ \A s \in Existing(sets) : sets[s].rev \in Nat
      /\ \A s \in Existing(view) : view[s].rev \in Nat
  BY DEF StatusInv, RevisionInv, TypeOK, StatusObject, SetObject, Existing
<1>2. CASE Existing(sets) = {} /\ Existing(view) = {}
  BY <1>2 DEF StatusInv, Tracked
<1>3. ASSUME NEW l \in Live(sets),
             \A s \in Existing(sets) : sets[s].rev <= sets[l].rev,
             \A s \in Existing(view) : view[s].rev <= sets[l].rev
      PROVE  status.rev <= sets[l].rev
  <2>1. sets[l].rev \in Nat
    BY <1>1, SubsetTypes
  <2>2. CASE status.rev = 0
    BY <2>1, <2>2
  <2>3. ASSUME NEW m \in Existing(view), status.rev <= view[m].rev
        PROVE  status.rev <= sets[l].rev
    <3>1. view[m].rev <= sets[l].rev /\ view[m].rev \in Nat
      BY <1>1, <1>3
    <3> QED
      BY <1>1, <2>1, <2>3, <3>1
  <2> QED
    BY <2>2, <2>3 DEF StatusInv, Tracked
<1> QED
  BY <1>2, <1>3 DEF StatusInv, RevisionInv, ALeaderLives

\* The list that is published shows nothing older than what was published.
LEMMA PublishedGrows ==
  ASSUME StatusInv, PublishStatus
  PROVE  status.rev <= status'.rev /\ Tracked'
<1>1. /\ TypeOK /\ status.rev \in Nat
      /\ \A s \in Existing(sets) : sets[s].rev \in Nat
      /\ \A s \in Existing(view) : view[s].rev \in Nat
  BY DEF StatusInv, RevisionInv, TypeOK, StatusObject, SetObject, Existing
<1>2. Managed
  <2>1. work.latest # None /\ work.pc = "status"
    BY DEF PublishStatus, StatusInv, RevisionInv, LatestIsNewest
  <2> QED
    BY <1>1, <2>1 DEF StatusInv, RevisionInv, LatestIsNewest, Managed, TypeOK, Work
<1>3. view' = view \/ view' = sets
  BY DEF PublishStatus
<1>4. Existing(view') = {} => status.rev = 0
  BY <1>2, <1>3, TrackedBySets, SubsetTypes DEF StatusInv, Tracked
<1>5. ASSUME NEW l \in MaxRevisionOf(view') PROVE status.rev <= view'[l].rev
  <2>1. l \in Existing(view') /\ \A s \in Existing(view') : view'[s].rev <= view'[l].rev
    BY <1>5 DEF MaxRevisionOf
  <2>2. view'[l].rev \in Nat /\ \A s \in Existing(view') : view'[s].rev \in Nat
    BY <1>1, <1>3, <2>1
  <2>3. status.rev = 0 \/ \E m \in Existing(view') : status.rev <= view'[m].rev
    BY <1>2, <1>3, TrackedBySets, SubsetTypes DEF StatusInv, Tracked
  <2> QED
    BY <1>1, <2>1, <2>2, <2>3
<1>6. CASE Existing(view') = {} /\ status' = [status EXCEPT !.target = work.target.replicas]
  <2>1. status'.rev = status.rev
    BY <1>1, <1>6 DEF TypeOK, StatusObject
  <2> QED
    BY <1>1, <1>4, <1>6, <2>1 DEF Tracked
<1>7. ASSUME NEW l \in MaxRevisionOf(view'), status'.rev = view'[l].rev
      PROVE  status.rev <= status'.rev /\ Tracked'
  <2>1. l \in Existing(view') /\ view'[l].rev \in Nat
    BY <1>1, <1>3 DEF MaxRevisionOf
  <2> QED
    BY <1>5, <1>7, <2>1 DEF Tracked
<1> QED
  BY <1>6, <1>7 DEF PublishStatus, Observed

LEMMA StatusStep ==
  ASSUME StatusInv, Next
  PROVE  status.rev <= status'.rev /\ Tracked'
<1>1. status.rev \in Nat
  BY DEF StatusInv, RevisionInv, TypeOK, StatusObject
<1>2. Managed' => Managed
  BY NeverManagedAgain DEF StatusInv
<1>3. CASE status' = status /\ view' = view
  BY <1>1, <1>2, <1>3 DEF StatusInv, Tracked
<1>4. CASE status' = status /\ view' = sets
  <2>1. Managed' => status.rev = 0 \/ \E m \in Existing(sets) : status.rev <= sets[m].rev
    BY <1>2, TrackedBySets, SubsetTypes
  <2> QED
    BY <1>1, <1>4, <2>1 DEF Tracked
<1>5. ASSUME NEW s \in Sets,
             \/ createFirewallSet(s) \/ DeleteSet(s) \/ SetReports(s) \/ SetFinalized(s)
             \/ GarbageCollect(s) \/ RollSet(s) \/ Degrade(s) \/ CreateAnswerLost(s)
      PROVE  status' = status /\ view' = view
  BY <1>5 DEF createFirewallSet, DeleteSet, SetReports, SetFinalized, GarbageCollect,
              RollSet, Degrade, CreateAnswerLost, Disturb, Fail
<1>6. CASE Refresh \/ Restart
  BY <1>4, <1>6 DEF Refresh, Restart, Fail
<1>7. CASE \/ Begin \/ Delete \/ CreationBackedOff \/ syncFirewallSet \/ SwapDistance
           \/ BackoffExpires \/ ApiError \/ ChangeImage \/ ChangeRules \/ Scale
           \/ ChangeStrategy \/ DeleteDeployment
  BY <1>3, <1>7
     DEF Begin, Delete, ListSets, CreationBackedOff, syncFirewallSet, SwapDistance,
         BackoffExpires, ApiError, Fail, ChangeImage, ChangeRules, Scale, ChangeStrategy,
         DeleteDeployment, Disturb
<1> QED
  BY <1>3, <1>5, <1>6, <1>7, PublishedGrows DEF Next, Controller, Outside

\* The observed revision is a counter of rolls that never goes back, whatever
\* list the status is computed from (setStatus; property ObservedRevisionGrows).
THEOREM ObservedRevisionNeverGoesBack ==
  ASSUME "lostAnswer" \notin Faults
  PROVE  Spec => ObservedRevisionGrows
<1>1. Init => Tracked
  BY DEF Init, Tracked
<1>2. StatusInv /\ [Next]_vars => Tracked' /\ [status.rev <= status'.rev]_vars
  <2>1. ASSUME StatusInv, UNCHANGED vars PROVE Tracked'
    BY <2>1 DEF vars, StatusInv, Tracked, Managed
  <2> QED
    BY <2>1, StatusStep
<1>3. Spec => []StatusInv
  <2>1. StatusInv <=> RevisionInv /\ WorkIsGuarded /\ Tracked
    BY DEF StatusInv
  <2>2. Spec => [](RevisionInv /\ WorkIsGuarded)
    BY RevisionInvariant, WorkStaysGuarded, PTL
  <2> QED
    BY <1>1, <1>2, <2>1, <2>2, PTL DEF Spec
<1>4. Spec => [][status.rev <= status'.rev]_vars
  BY <1>2, <1>3, PTL DEF Spec
<1> QED
  BY <1>4 DEF ObservedRevisionGrows

-----------------------------------------------------------------------------
(* One preferred set *)

\* Where a reconcile is after it was told to delete some sets: at the first of them,
\* at its end, or, when there was nothing at all to delete, one step further.
LEMMA DeletionResult ==
  ASSUME NEW w \in Work, NEW v, NEW ss \in SUBSET Sets,
         NEW d, d = deleteFirewallSets(w, v, ss)
  PROVE  /\ d.pc \in {"idle", "status", "delete", "sync", "swap"}
         /\ d.pc = "delete" => d.doomed = ss \cap Live(v) /\ d.waiting
         /\ d.pc = "delete" <=> d.doomed # {}
         /\ d.pc \in {"sync", "swap"} =>
              /\ ss = {} /\ d.target = w.target /\ d.latest = w.latest /\ w.latest # None
              /\ d.pc = "sync" <=> w.target.strategy = Recreate
<1> DEFINE e == [w EXCEPT !.doomed = ss \cap Live(v), !.waiting = (ss # {})]
<1>1. /\ e \in Work /\ e.doomed = ss \cap Live(v) /\ e.waiting = (ss # {})
      /\ e.target = w.target /\ e.latest = w.latest
  BY DEF Work, Live
<1>2. d = Proceed(e)
  BY DEF deleteFirewallSets
<1> HIDE DEF e
<1>3. CASE e.doomed # {}
  <2>1. d = [e EXCEPT !.pc = "delete"]
    BY <1>2, <1>3 DEF Proceed
  <2>2. d.pc = "delete" /\ d.doomed = e.doomed /\ d.waiting = e.waiting
    BY <1>1, <2>1 DEF Work
  <2>3. d.waiting
    BY <1>1, <1>3, <2>2
  <2> QED
    BY <1>1, <1>3, <2>2, <2>3
<1>4. CASE e.doomed = {} /\ (e.waiting \/ e.latest = None)
  <2>1. d = Return(e)
    BY <1>2, <1>4 DEF Proceed
  <2>2. d.doomed = {} /\ d.pc \in {"idle", "status"}
    BY <1>1, <2>1, ReturnType
  <2> QED
    BY <2>2
<1>5. CASE e.doomed = {} /\ ~(e.waiting \/ e.latest = None)
  <2>1. d = [e EXCEPT !.pc = IF e.target.strategy = Recreate THEN "sync" ELSE "swap"]
    BY <1>2, <1>5 DEF Proceed
  <2>2. /\ d.doomed = {} /\ d.target = w.target /\ d.latest = w.latest /\ w.latest # None
        /\ d.pc = IF w.target.strategy = Recreate THEN "sync" ELSE "swap"
    BY <1>1, <1>5, <2>1 DEF Work
  <2>3. ss = {}
    BY <1>1, <1>5
  <2> QED
    BY <2>2, <2>3
<1> QED
  BY <1>3, <1>4, <1>5

\* A reconcile that waits for deletions never gets past them.
LEMMA WaitingProceeds ==
  ASSUME NEW w \in Work, w.waiting
  PROVE  /\ Proceed(w).pc \in {"idle", "status", "delete"}
         /\ Proceed(w).pc = "delete" => Proceed(w).doomed = w.doomed /\ Proceed(w).waiting
         /\ Proceed(w).pc = "delete" <=> Proceed(w).doomed # {}
<1>1. CASE w.doomed # {}
  <2>1. Proceed(w) = [w EXCEPT !.pc = "delete"]
    BY <1>1 DEF Proceed
  <2>2. Proceed(w).pc = "delete" /\ Proceed(w).doomed = w.doomed /\ Proceed(w).waiting = w.waiting
    BY <2>1 DEF Work
  <2> QED
    BY <1>1, <2>2
<1>2. CASE w.doomed = {}
  <2>1. Proceed(w) = Return(w)
    BY <1>2 DEF Proceed
  <2> QED
    BY <2>1, ReturnType
<1> QED
  BY <1>1, <1>2

\* The revision of a new set is above all listed ones.
LEMMA NewSetIsNewest ==
  ASSUME TypeOK, LatestIsNewest, work.pc = "create"
  PROVE  /\ NewSet.rev \in Nat
         /\ \A s \in Existing(view) : view[s].rev < NewSet.rev /\ view[s].rev \in Nat
         /\ work.latest = None <=> Existing(view) = {}
<1>1. \A s \in Existing(view) : view[s].rev \in Nat
  BY DEF TypeOK, SetObject, Existing
<1>2. NewSet.rev \in Nat
  BY NewSetType DEF SetObject
<1>3. work.latest # None => work.latest \in MaxRevisionOf(view) /\ NewSet.rev = view[work.latest].rev + 1
  BY DEF LatestIsNewest, NewSet, NextRevision
<1>4. work.latest = None <=> Existing(view) = {}
  BY <1>3 DEF LatestIsNewest, MaxRevisionOf
<1>5. \A s \in Existing(view) : view[s].rev < NewSet.rev
  BY <1>1, <1>3, <1>4 DEF MaxRevisionOf
<1> QED
  BY <1>1, <1>2, <1>4, <1>5

\* With the new set in the list, everything but that set and one oldest set goes.
LEMMA NewSetIsKept ==
  ASSUME TypeOK, LatestIsNewest, work.pc = "create", NEW n \in Fresh, Existing(view) # {},
         NEW ss \in IntermediateSets([view EXCEPT ![n] = NewSet])
  PROVE  \E o \in Existing(view) : ss = Existing(view) \ {o}
<1> DEFINE v == [view EXCEPT ![n] = NewSet]
<1>1. n \in Sets /\ n \notin Existing(view)
  BY DEF Fresh
<1>2. /\ v[n] = NewSet /\ \A s \in Existing(view) : v[s] = view[s]
      /\ Existing(v) = Existing(view) \cup {n}
  BY <1>1, NewSetType DEF Existing, TypeOK
<1>3. MaxRevisionOf(v) = {n}
  <2>1. \A s \in Existing(view) : ~(v[n].rev <= v[s].rev) /\ v[s].rev <= v[n].rev
    BY <1>2, NewSetIsNewest
  <2>2. v[n].rev <= v[n].rev
    BY <1>2, NewSetIsNewest
  <2> HIDE DEF v
  <2> QED
    BY <1>2, <2>1, <2>2 DEF MaxRevisionOf
<1>4. MinRevisionOf(v) \subseteq Existing(view)
  <2>1. PICK e : e \in Existing(view)
    OBVIOUS
  <2>2. ~(v[n].rev <= v[e].rev)
    BY <1>2, <2>1, NewSetIsNewest
  <2> HIDE DEF v
  <2> QED
    BY <1>2, <2>1, <2>2 DEF MinRevisionOf
<1>5. PICK o \in MinRevisionOf(v), m \in MaxRevisionOf(v) : ss = Existing(v) \ {o, m}
  BY DEF IntermediateSets
<1> HIDE DEF v
<1> QED
  BY <1>1, <1>2, <1>3, <1>4, <1>5

\* A set that can announce the shortest distance with firewalls, now or after no
\* more than a change of its replicas: a rolling update withholds the distance, a
\* recreate the replicas.
Preferable(set) ==
  IF dep.spec.strategy = RollingUpdate THEN set.dist = FirewallShortestDistance
                                       ELSE set.replicas > 0

\* The reconciler makes a set preferable only when no other set is listed.
StagedWork ==
  /\ work.pc = "delete" => work.waiting
  /\ work.pc = "sync" /\ work.target.strategy = Recreate => Existing(view) = {work.latest}
  /\ work.pc = "swap" /\ work.target.strategy = RollingUpdate /\ AllReady(view[work.latest]) =>
       Existing(view) = {work.latest}

FollowsStrategy ==
  work.pc \in {"create", "sync", "swap"} => work.target.strategy = dep.spec.strategy

\* The set that the list does not show is a new one, which starts unpreferred.
StagedSets ==
  /\ \A s, t \in Existing(sets) : Preferable(sets[s]) /\ Preferable(sets[t]) => s = t
  /\ \A s \in Existing(sets) \ Existing(view) : Existing(view) # {} => ~Preferable(sets[s])

StagingInv == StagedWork /\ FollowsStrategy /\ StagedSets

LEMMA InitStaging == Init => StagingInv
<1> SUFFICES ASSUME Init PROVE StagingInv
  OBVIOUS
<1>1. Existing(sets) = {} /\ work.pc = "idle"
  BY AbsentType, IdleType DEF Init, Existing
<1> QED
  BY <1>1 DEF StagingInv, StagedWork, FollowsStrategy, StagedSets

\* A reconcile that ends, or none at all.
LEMMA WorkEndsStaged ==
  ASSUME work'.pc \in {"idle", "status"} PROVE StagedWork' /\ FollowsStrategy'
BY DEF StagedWork, FollowsStrategy

LEMMA WorkStaysStaged ==
  ASSUME StagedWork, work' = work, view' = view PROVE StagedWork'
BY DEF StagedWork, AllReady

LEMMA BeginStagedWork ==
  ASSUME RevisionInv, StagedWork, Begin
  PROVE  StagedWork' /\ FollowsStrategy'
<1>1. TypeOK /\ view' = view /\ sets' = sets /\ dep'.spec = dep.spec
  BY DEF Begin, ListSets, RevisionInv, TypeOK, DeploymentObject
<1> DEFINE start == [Idle EXCEPT !.target = dep.spec]
           w(l) == [start EXCEPT !.latest = l]
<1>2. start \in Work /\ start.target = dep.spec /\ \A l \in Sets : w(l) \in Work
  <2>1. dep.spec \in Target
    BY <1>1 DEF TypeOK, DeploymentObject, Target
  <2> QED
    BY <2>1, IdleType DEF Work, Idle
<1>3. CASE work' = [start EXCEPT !.pc = "create"]
  <2>1. work'.pc = "create" /\ work'.target = dep.spec
    BY <1>2, <1>3 DEF Work
  <2> QED
    BY <1>1, <2>1 DEF StagedWork, FollowsStrategy
<1>4. ASSUME NEW l \in MaxRevisionOf(view) PROVE
        /\ l \in Sets /\ l \in Existing(view) /\ w(l) \in Work
        /\ w(l).target = dep.spec /\ w(l).latest = l
  BY <1>2, SubsetTypes DEF Idle
<1>5. ASSUME NEW l \in MaxRevisionOf(view), work' = [w(l) EXCEPT !.pc = "create"]
      PROVE  StagedWork' /\ FollowsStrategy'
  <2>1. work'.pc = "create" /\ work'.target = dep.spec
    BY <1>4, <1>5 DEF Work
  <2> QED
    BY <1>1, <2>1 DEF StagedWork, FollowsStrategy
<1>6. ASSUME NEW l \in MaxRevisionOf(view), dep.spec.strategy = RollingUpdate,
             work' = [w(l) EXCEPT !.pc = "sync"]
      PROVE  StagedWork' /\ FollowsStrategy'
  <2>1. work'.pc = "sync" /\ work'.target = dep.spec
    BY <1>4, <1>6 DEF Work
  <2> QED
    BY <1>1, <1>6, <2>1 DEF StagedWork, FollowsStrategy
<1>7. ASSUME NEW l \in MaxRevisionOf(view), dep.spec.strategy # RollingUpdate,
             work' = deleteFirewallSets(w(l), view, Existing(view) \ {l})
      PROVE  StagedWork' /\ FollowsStrategy'
  <2>1. Existing(view) \ {l} \in SUBSET Sets
    BY SubsetTypes
  <2>2. dep.spec.strategy = Recreate
    BY <1>1, <1>7 DEF TypeOK, DeploymentObject, DeploymentSpec
  <2> HIDE DEF w
  <2>3. /\ work'.pc \in {"idle", "status", "delete", "sync", "swap"}
        /\ work'.pc = "delete" => work'.waiting
        /\ work'.pc \in {"sync", "swap"} =>
             /\ Existing(view) \ {l} = {} /\ work'.target = dep.spec /\ work'.latest = l
             /\ work'.pc = "sync"
    BY <1>4, <1>7, <2>1, <2>2, DeletionResult
  <2>4. work'.pc \in {"sync", "swap"} => Existing(view) = {l}
    BY <1>4, <2>3
  <2> QED
    BY <1>1, <2>2, <2>3, <2>4 DEF StagedWork, FollowsStrategy
<1>8. \/ work' = [start EXCEPT !.pc = "create"]
      \/ \E l \in MaxRevisionOf(view) :
           \/ work' = [w(l) EXCEPT !.pc = "create"]
           \/ dep.spec.strategy = RollingUpdate /\ work' = [w(l) EXCEPT !.pc = "sync"]
           \/ /\ dep.spec.strategy # RollingUpdate
              /\ work' = deleteFirewallSets(w(l), view, Existing(view) \ {l})
  BY DEF Begin
<1> QED
  BY <1>3, <1>5, <1>6, <1>7, <1>8

LEMMA DeleteStagedWork ==
  ASSUME StagedWork, Delete
  PROVE  StagedWork' /\ FollowsStrategy'
<1>1. CASE work' = work
  <2>1. work'.pc = "idle"
    BY <1>1 DEF Delete
  <2> QED
    BY <2>1, WorkEndsStaged
<1>2. CASE work' = deleteFirewallSets([Idle EXCEPT !.flow = "finalize"], view, Existing(view))
  <2> DEFINE w == [Idle EXCEPT !.flow = "finalize"]
  <2>1. w \in Work /\ w.latest = None
    BY IdleType DEF Work, Idle
  <2>2. Existing(view) \in SUBSET Sets /\ work' = deleteFirewallSets(w, view, Existing(view))
    BY <1>2, SubsetTypes
  <2> HIDE DEF w
  <2>3. /\ work'.pc \in {"idle", "status", "delete"}
        /\ work'.pc = "delete" => work'.waiting
    BY <2>1, <2>2, DeletionResult
  <2> QED
    BY <2>3 DEF StagedWork, FollowsStrategy
<1> QED
  BY <1>1, <1>2 DEF Delete

LEMMA CreateStagedWork ==
  ASSUME RevisionInv, NEW n \in Sets, createFirewallSet(n)
  PROVE  /\ StagedWork'
         /\ work'.pc = "swap" => work'.target = work.target
         /\ work'.pc \in {"idle", "status", "delete", "swap"}
<1>1. TypeOK /\ LatestIsNewest /\ work \in Work
  BY DEF RevisionInv, TypeOK
<1>2. view' = view /\ work.pc = "create" /\ n \in Fresh
  BY DEF createFirewallSet
<1>3. work.latest = None <=> Existing(view) = {}
  BY <1>1, <1>2, NewSetIsNewest
<1>4. CASE work' = Idle
  BY <1>4, IdleType, WorkEndsStaged
<1>5. CASE /\ work.latest # None
           /\ work' = deleteFirewallSets(work, view, Existing(view))
  <2>1. Existing(view) \in SUBSET Sets /\ Existing(view) # {}
    BY <1>3, <1>5, SubsetTypes
  <2>2. /\ work'.pc \in {"idle", "status", "delete"}
        /\ work'.pc = "delete" => work'.waiting
    BY <1>1, <1>5, <2>1, DeletionResult
  <2> QED
    BY <2>2 DEF StagedWork
<1>6. ASSUME work.latest # None, work.target.strategy = RollingUpdate,
             NEW ss \in IntermediateSets([view EXCEPT ![n] = NewSet]),
             work' = deleteFirewallSets(work, view, ss)
      PROVE  /\ StagedWork'
             /\ work'.pc = "swap" => work'.target = work.target
             /\ work'.pc \in {"idle", "status", "delete", "swap"}
  <2>1. PICK o \in Existing(view) : ss = Existing(view) \ {o}
    BY <1>1, <1>2, <1>3, <1>6, NewSetIsKept
  <2>2. ss \in SUBSET Sets
    BY <2>1, SubsetTypes
  <2>3. /\ work'.pc \in {"idle", "status", "delete", "swap"}
        /\ work'.pc = "delete" => work'.waiting
        /\ work'.pc = "swap" =>
             ss = {} /\ work'.target = work.target /\ work'.latest = work.latest
    BY <1>1, <1>6, <2>2, DeletionResult
  <2>4. work.latest \in Existing(view)
    BY <1>6, SubsetTypes DEF RevisionInv, LatestIsNewest
  <2>5. work'.pc = "swap" => Existing(view) = {work'.latest}
    BY <2>1, <2>3, <2>4
  <2> QED
    BY <1>2, <2>3, <2>5 DEF StagedWork
<1> QED
  BY <1>4, <1>5, <1>6, IdleType DEF createFirewallSet

\* Nothing goes past a deletion that is waited for.
LEMMA DeleteSetStagedWork ==
  ASSUME RevisionInv, StagedWork, NEW d \in Sets, DeleteSet(d)
  PROVE  StagedWork' /\ FollowsStrategy'
<1>1. work \in Work /\ work.waiting
  BY DEF RevisionInv, TypeOK, DeleteSet, StagedWork
<1>2. CASE work' = Return(work)
  BY <1>1, <1>2, ReturnType, WorkEndsStaged
<1>3. CASE work' = Proceed([work EXCEPT !.doomed = @ \ {d}])
  <2> DEFINE w == [work EXCEPT !.doomed = @ \ {d}]
  <2>1. w \in Work /\ w.waiting
    BY <1>1 DEF Work
  <2> HIDE DEF w
  <2>2. /\ work'.pc \in {"idle", "status", "delete"}
        /\ work'.pc = "delete" => work'.waiting
    BY <1>3, <2>1, WaitingProceeds DEF w
  <2> QED
    BY <2>2 DEF StagedWork, FollowsStrategy
<1> QED
  BY <1>2, <1>3 DEF DeleteSet

\* What syncing goes on with.
LEMMA SyncCases ==
  ASSUME syncFirewallSet
  PROVE  \/ work' = Return(work)
         \/ work.target.strategy = Recreate /\ work' = [work EXCEPT !.pc = "swap"]
         \/ /\ work.target.strategy = RollingUpdate
            /\ \E ss \in SUBSET Sets :
                 /\ work' = deleteFirewallSets(work, view, ss)
                 /\ IF AllReady(view[work.latest]) THEN ss = Existing(view) \ {work.latest}
                                                   ELSE ss \in IntermediateSets(view)
BY SubsetTypes DEF syncFirewallSet

LEMMA SyncStagedWork ==
  ASSUME RevisionInv, StagedWork, syncFirewallSet
  PROVE  /\ StagedWork'
         /\ work'.pc = "swap" => work'.target = work.target
         /\ work'.pc \in {"idle", "status", "delete", "swap"}
<1> DEFINE l == work.latest
<1>1. TypeOK /\ work \in Work /\ work.pc = "sync" /\ view' = view
  BY DEF RevisionInv, TypeOK, syncFirewallSet
<1>2. l \in Existing(view)
  BY <1>1, SubsetTypes DEF RevisionInv, LatestIsNewest
<1>3. CASE work' = Return(work)
  <2>1. work'.pc \in {"idle", "status"}
    BY <1>1, <1>3, ReturnType
  <2> QED
    BY <2>1, WorkEndsStaged
<1>4. CASE work.target.strategy = Recreate /\ work' = [work EXCEPT !.pc = "swap"]
  <2>1. work'.pc = "swap" /\ work'.target = work.target
    BY <1>1, <1>4 DEF Work
  <2> QED
    BY <1>4, <2>1 DEF StagedWork
<1>5. ASSUME work.target.strategy = RollingUpdate, NEW ss \in SUBSET Sets,
             work' = deleteFirewallSets(work, view, ss),
             AllReady(view[l]) => ss = Existing(view) \ {l}
      PROVE  /\ StagedWork'
             /\ work'.pc = "swap" => work'.target = work.target
             /\ work'.pc \in {"idle", "status", "delete", "swap"}
  <2>1. /\ work'.pc \in {"idle", "status", "delete", "swap"}
        /\ work'.pc = "delete" => work'.waiting
        /\ work'.pc = "swap" => ss = {} /\ work'.target = work.target /\ work'.latest = l
    BY <1>1, <1>5, DeletionResult
  <2>2. work'.pc = "swap" /\ AllReady(view[l]) => Existing(view) = {l}
    BY <1>2, <1>5, <2>1
  <2> QED
    BY <1>1, <2>1, <2>2 DEF StagedWork, AllReady
<1> QED
  BY <1>3, <1>4, <1>5, SyncCases

LEMMA SwapEnds ==
  ASSUME RevisionInv, SwapDistance PROVE work'.pc = "status"
BY DEF RevisionInv, TypeOK, SwapDistance, Work

\* The steps that end a reconcile, or that do not concern it.
LEMMA QuietWork ==
  ASSUME TypeOK, "lostAnswer" \notin Faults, [Next]_vars
  PROVE  \/ Controller
         \/ work'.pc \in {"idle", "status"}
         \/ work' = work /\ view' = view
<1>1. CASE ApiError \/ Restart
  BY <1>1, ReturnType, IdleType DEF ApiError, Restart, Fail, TypeOK
<1>2. CASE Refresh \/ BackoffExpires \/ UNCHANGED vars
  BY <1>2 DEF Refresh, BackoffExpires, vars
<1>3. ASSUME NEW s \in Sets, SetReports(s) \/ SetFinalized(s) \/ GarbageCollect(s)
      PROVE  work' = work /\ view' = view
  BY <1>3 DEF SetReports, SetFinalized, GarbageCollect
<1>4. CASE Outside
  BY <1>4 DEF Outside, ChangeImage, ChangeRules, Scale, ChangeStrategy, DeleteDeployment,
              RollSet, Degrade, Disturb
<1>5. ASSUME NEW s \in Sets PROVE ~CreateAnswerLost(s)
  BY DEF CreateAnswerLost, Fail
<1> QED
  BY <1>1, <1>2, <1>3, <1>4, <1>5 DEF Next

LEMMA NextStagedWork ==
  ASSUME "lostAnswer" \notin Faults, RevisionInv, StagedWork, [Next]_vars
  PROVE  StagedWork'
<1>1. TypeOK /\ work \in Work
  BY DEF RevisionInv, TypeOK
<1>2. CASE CreationBackedOff \/ PublishStatus \/ SwapDistance
  <2>1. work'.pc \in {"idle", "status"}
    BY <1>1, <1>2, ReturnType, IdleType, SwapEnds DEF CreationBackedOff, PublishStatus
  <2> QED
    BY <2>1, WorkEndsStaged
<1> QED
  BY <1>1, <1>2, QuietWork, WorkEndsStaged, WorkStaysStaged, BeginStagedWork,
     DeleteStagedWork, CreateStagedWork, DeleteSetStagedWork, SyncStagedWork DEF Controller

THEOREM StagedWorkInvariant ==
  ASSUME "lostAnswer" \notin Faults
  PROVE  Spec => []StagedWork
<1>1. RevisionInv /\ StagedWork /\ [Next]_vars => StagedWork'
  BY NextStagedWork
<1>2. Init => StagedWork
  BY InitStaging DEF StagingInv
<1> QED
  BY <1>1, <1>2, RevisionInvariant, PTL DEF Spec

-----------------------------------------------------------------------------
(* While the strategy stays *)

\* What the steps outside of the reconciler leave alone.
LEMMA OutsideIsQuiet ==
  ASSUME TypeOK, Outside
  PROVE  /\ view' = view /\ work' = work
         /\ Existing(sets') = Existing(sets) /\ Live(sets') = Live(sets)
         /\ \A s \in Existing(sets') :
              sets'[s].dist = sets[s].dist /\ sets'[s].replicas = sets[s].replicas
<1>1. ASSUME NEW kind, Disturb(kind)
      PROVE  work' = work /\ view' = view
  BY <1>1 DEF Disturb
<1>2. CASE ChangeImage \/ ChangeRules \/ Scale \/ ChangeStrategy \/ DeleteDeployment
  BY <1>1, <1>2
     DEF ChangeImage, ChangeRules, Scale, ChangeStrategy, DeleteDeployment, UpdateSpec
<1>3. ASSUME NEW s \in Sets, RollSet(s) \/ Degrade(s)
      PROVE  /\ work' = work /\ view' = view
             /\ Existing(sets') = Existing(sets) /\ Live(sets') = Live(sets)
             /\ \A t \in Existing(sets') :
                  sets'[t].dist = sets[t].dist /\ sets'[t].replicas = sets[t].replicas
  <2>1. work' = work /\ view' = view
    BY <1>1, <1>3 DEF RollSet, Degrade
  <2>2. \A t \in Sets : /\ sets'[t].phase = sets[t].phase /\ sets'[t].dist = sets[t].dist
                        /\ sets'[t].replicas = sets[t].replicas
    BY <1>3 DEF RollSet, Degrade, TypeOK, SetObject
  <2> QED
    BY <2>1, <2>2 DEF Existing, Live
<1> QED
  BY <1>2, <1>3 DEF Outside

LEMMA StrategyKept ==
  ASSUME TypeOK, "strategy" \notin Disturbances, [Next]_vars
  PROVE  dep'.spec.strategy = dep.spec.strategy
<1>1. CASE dep' = dep
  BY <1>1
<1>2. CASE Begin \/ Delete \/ DeleteDeployment
  BY <1>2 DEF Begin, Delete, DeleteDeployment, TypeOK, DeploymentObject
<1>3. CASE ChangeImage \/ ChangeRules \/ Scale
  BY <1>3 DEF ChangeImage, ChangeRules, Scale, UpdateSpec, TypeOK, DeploymentObject,
              DeploymentSpec
<1>4. ~ChangeStrategy
  BY DEF ChangeStrategy, Disturb
<1>5. ASSUME NEW s \in Sets,
             \/ createFirewallSet(s) \/ DeleteSet(s) \/ SetReports(s) \/ SetFinalized(s)
             \/ GarbageCollect(s) \/ RollSet(s) \/ Degrade(s) \/ CreateAnswerLost(s)
      PROVE  dep' = dep
  BY <1>5 DEF createFirewallSet, DeleteSet, SetReports, SetFinalized, GarbageCollect,
              RollSet, Degrade, CreateAnswerLost, Fail
<1>6. CASE \/ CreationBackedOff \/ syncFirewallSet \/ SwapDistance \/ PublishStatus
           \/ Refresh \/ BackoffExpires \/ ApiError \/ Restart \/ UNCHANGED vars
  BY <1>6 DEF CreationBackedOff, syncFirewallSet, SwapDistance, PublishStatus, Refresh,
              BackoffExpires, ApiError, Restart, Fail, vars
<1> QED
  BY <1>1, <1>2, <1>3, <1>4, <1>5, <1>6 DEF Next, Controller, Outside

LEMMA NextFollowsStrategy ==
  ASSUME "lostAnswer" \notin Faults, "strategy" \notin Disturbances,
         RevisionInv, StagingInv, [Next]_vars
  PROVE  FollowsStrategy'
<1>1. TypeOK /\ work \in Work /\ dep'.spec.strategy = dep.spec.strategy
      /\ StagedWork /\ FollowsStrategy
  BY StrategyKept DEF RevisionInv, TypeOK, StagingInv
<1>2. CASE work' = work \/ work'.pc \in {"idle", "status"}
  BY <1>1, <1>2 DEF FollowsStrategy
<1>3. CASE CreationBackedOff \/ PublishStatus \/ SwapDistance
  BY <1>1, <1>2, <1>3, ReturnType, IdleType, SwapEnds DEF CreationBackedOff, PublishStatus
<1>4. ASSUME NEW s \in Sets, createFirewallSet(s) PROVE FollowsStrategy'
  <2>1. work.pc = "create"
    BY <1>4 DEF createFirewallSet
  <2> QED
    BY <1>1, <1>4, <2>1, CreateStagedWork DEF FollowsStrategy
<1>5. CASE syncFirewallSet
  <2>1. work.pc = "sync"
    BY <1>5 DEF syncFirewallSet
  <2> QED
    BY <1>1, <1>5, <2>1, SyncStagedWork DEF FollowsStrategy
<1> QED
  BY <1>1, <1>2, <1>3, <1>4, <1>5, QuietWork, BeginStagedWork, DeleteStagedWork,
     DeleteSetStagedWork DEF Controller

\* Steps that leave distances and replicas of the sets alone and add none.
LEMMA SetsStayStaged ==
  ASSUME StagedSets, dep'.spec.strategy = dep.spec.strategy,
         view' = view \/ (view' = sets /\ sets' = sets),
         \A s \in Existing(sets') : /\ s \in Existing(sets) /\ sets'[s].dist = sets[s].dist
                                    /\ sets'[s].replicas = sets[s].replicas
  PROVE  StagedSets'
<1>1. \A s \in Existing(sets') : Preferable(sets[s])' <=> Preferable(sets[s])
  BY DEF Preferable
<1>2. CASE view' = view
  BY <1>1, <1>2 DEF StagedSets
<1>3. CASE view' = sets /\ sets' = sets
  BY <1>1, <1>3 DEF StagedSets
<1> QED
  BY <1>2, <1>3

LEMMA CreateStagedSets ==
  ASSUME RevisionInv, StagingInv, NEW n \in Sets, createFirewallSet(n)
  PROVE  StagedSets'
<1>1. TypeOK /\ LatestIsNewest /\ work \in Work
  BY DEF RevisionInv, TypeOK
<1>2. /\ view' = view /\ dep' = dep /\ ~backoff /\ work.pc = "create"
      /\ sets' = [sets EXCEPT ![n] = NewSet] /\ n \in Fresh
      /\ n \notin Existing(sets) /\ n \notin Existing(view)
  BY DEF createFirewallSet, Fresh
<1>3. work.target.strategy = dep.spec.strategy
  BY <1>2 DEF StagingInv, FollowsStrategy
<1>4. Existing(sets) \subseteq Existing(view)
  BY <1>2 DEF RevisionInv, ViewIsCurrent
<1>5. /\ Existing(sets') = Existing(sets) \cup {n}
      /\ sets'[n] = NewSet /\ \A s \in Existing(sets) : sets'[s] = sets[s]
  BY <1>1, <1>2, NewSetType DEF Existing, TypeOK
<1>6. work.latest = None <=> Existing(view) = {}
  BY <1>1, <1>2, NewSetIsNewest
<1>7. CASE Existing(view) = {}
  BY <1>2, <1>4, <1>5, <1>7 DEF StagedSets
<1>8. CASE Existing(view) # {}
  <2>1. ~Preferable(sets[n])'
    <3>1. CASE dep.spec.strategy = RollingUpdate
      BY <1>2, <1>3, <1>5, <1>6, <1>8, <3>1 DEF Preferable, NewSet, setOverrides
    <3>2. CASE dep.spec.strategy = Recreate
      BY <1>2, <1>3, <1>5, <1>6, <1>8, <3>2 DEF Preferable, NewSet, setOverrides
    <3> QED
      BY <1>1, <3>1, <3>2 DEF TypeOK, DeploymentObject, DeploymentSpec
  <2> QED
    BY <1>2, <1>4, <1>5, <2>1 DEF StagedSets, StagingInv, Preferable
<1> QED
  BY <1>7, <1>8

\* Syncing and swapping change one set, and nothing of the others.
LEMMA SyncedSet ==
  ASSUME RevisionInv, syncFirewallSet
  PROVE  LET l == work.latest IN
         /\ l \in Sets /\ l \in Existing(view) /\ view' = view /\ dep' = dep
         /\ Existing(sets') = Existing(sets) /\ Live(sets') = Live(sets)
         /\ \A s \in Sets \ {l} : sets'[s] = sets[s]
         /\ sets' = sets \/
              /\ sets'[l] = [sets[l] EXCEPT !.replicas = work.target.replicas,
                                            !.image = work.target.image,
                                            !.rules = work.target.rules]
              /\ l \in Existing(sets)
         /\ sets'[l].dist = sets[l].dist
<1> DEFINE l == work.latest
           new == [sets[l] EXCEPT !.replicas = work.target.replicas,
                                  !.image = work.target.image,
                                  !.rules = work.target.rules]
<1>1. TypeOK /\ work.pc = "sync" /\ view' = view /\ dep' = dep
  BY DEF RevisionInv, TypeOK, syncFirewallSet
<1>2. l \in Existing(view) /\ l \in Sets
  BY <1>1, SubsetTypes DEF RevisionInv, LatestIsNewest
<1>3. new.phase = sets[l].phase /\ new.dist = sets[l].dist
  BY <1>1, <1>2 DEF TypeOK, SetObject
<1>4. CASE sets' = sets
  BY <1>1, <1>2, <1>4
<1>5. CASE sets[l].phase # "absent" /\ sets' = [sets EXCEPT ![l] = new]
  <2>1. sets'[l] = new /\ \A s \in Sets \ {l} : sets'[s] = sets[s]
    BY <1>1, <1>2, <1>5 DEF TypeOK
  <2>2. \A s \in Sets : sets'[s].phase = sets[s].phase
    BY <1>3, <2>1
  <2>3. Existing(sets') = Existing(sets) /\ Live(sets') = Live(sets) /\ l \in Existing(sets)
    BY <1>2, <1>5, <2>2 DEF Existing, Live
  <2> QED
    BY <1>1, <1>2, <1>3, <2>1, <2>3
<1> QED
  BY <1>4, <1>5 DEF syncFirewallSet

LEMMA SyncStagedSets ==
  ASSUME RevisionInv, StagingInv, syncFirewallSet
  PROVE  StagedSets'
<1> DEFINE l == work.latest
<1>1. /\ l \in Sets /\ l \in Existing(view) /\ view' = view /\ dep' = dep
      /\ Existing(sets') = Existing(sets)
      /\ \A s \in Sets \ {l} : sets'[s] = sets[s]
      /\ sets'[l].dist = sets[l].dist
  BY SyncedSet
<1>2. CASE dep.spec.strategy = RollingUpdate
  <2>1. \A s \in Existing(sets) : Preferable(sets[s])' <=> Preferable(sets[s])
    BY <1>1, <1>2 DEF Preferable, Existing
  <2> QED
    BY <1>1, <2>1 DEF StagedSets, StagingInv
<1>3. CASE dep.spec.strategy = Recreate
  <2>1. Existing(view) = {l}
    BY <1>3 DEF syncFirewallSet, StagingInv, StagedWork, FollowsStrategy
  <2>2. \A s \in Existing(sets) \ {l} : ~Preferable(sets[s])' /\ s \in Sets
    BY <1>1, <2>1 DEF Preferable, Existing, StagedSets, StagingInv
  <2> QED
    BY <1>1, <2>1, <2>2 DEF StagedSets
<1> QED
  BY <1>2, <1>3 DEF RevisionInv, TypeOK, DeploymentObject, DeploymentSpec

LEMMA SwappedSet ==
  ASSUME RevisionInv, SwapDistance
  PROVE  LET l == work.latest IN
         /\ l \in Sets /\ l \in Existing(view) /\ view' = view /\ dep' = dep
         /\ Existing(sets') = Existing(sets) /\ Live(sets') = Live(sets)
         /\ \A s \in Sets \ {l} : sets'[s] = sets[s]
         /\ sets' = sets \/ (AllReady(view[l]) /\
              sets'[l] = [sets[l] EXCEPT !.dist = FirewallShortestDistance])
         /\ sets'[l].replicas = sets[l].replicas
<1> DEFINE l == work.latest
           new == [sets[l] EXCEPT !.dist = FirewallShortestDistance]
<1>1. TypeOK /\ work.pc = "swap" /\ view' = view /\ dep' = dep
  BY DEF RevisionInv, TypeOK, SwapDistance
<1>2. l \in Existing(view) /\ l \in Sets
  BY <1>1, SubsetTypes DEF RevisionInv, LatestIsNewest
<1>3. new.phase = sets[l].phase /\ new.replicas = sets[l].replicas
  BY <1>1, <1>2 DEF TypeOK, SetObject
<1>4. CASE sets' = sets
  BY <1>1, <1>2, <1>4
<1>5. CASE AllReady(view[l]) /\ sets' = [sets EXCEPT ![l] = new]
  <2>1. sets'[l] = new /\ \A s \in Sets \ {l} : sets'[s] = sets[s]
    BY <1>1, <1>2, <1>5 DEF TypeOK
  <2>2. \A s \in Sets : sets'[s].phase = sets[s].phase
    BY <1>3, <2>1
  <2>3. Existing(sets') = Existing(sets) /\ Live(sets') = Live(sets)
    BY <2>2 DEF Existing, Live
  <2> QED
    BY <1>1, <1>2, <1>3, <1>5, <2>1, <2>3
<1> QED
  BY <1>4, <1>5 DEF SwapDistance

LEMMA SwapStagedSets ==
  ASSUME RevisionInv, StagingInv, SwapDistance
  PROVE  StagedSets'
<1> DEFINE l == work.latest
<1>1. /\ l \in Sets /\ l \in Existing(view) /\ view' = view /\ dep' = dep
      /\ Existing(sets') = Existing(sets)
      /\ \A s \in Sets \ {l} : sets'[s] = sets[s]
      /\ sets' = sets \/ AllReady(view[l])
      /\ sets'[l].replicas = sets[l].replicas
  BY SwappedSet
<1>2. CASE sets' = sets
  BY <1>1, <1>2, SetsStayStaged DEF StagingInv
<1>3. CASE AllReady(view[l]) /\ dep.spec.strategy = RollingUpdate
  <2>1. Existing(view) = {l}
    BY <1>3 DEF SwapDistance, StagingInv, StagedWork, FollowsStrategy
  <2>2. \A s \in Existing(sets) \ {l} : ~Preferable(sets[s])' /\ s \in Sets
    BY <1>1, <2>1 DEF Preferable, Existing, StagedSets, StagingInv
  <2> QED
    BY <1>1, <2>1, <2>2 DEF StagedSets
<1>4. CASE dep.spec.strategy # RollingUpdate
  <2>1. \A s \in Existing(sets) : Preferable(sets[s])' <=> Preferable(sets[s])
    BY <1>1, <1>4 DEF Preferable, Existing
  <2> QED
    BY <1>1, <2>1 DEF StagedSets, StagingInv
<1> QED
  BY <1>1, <1>2, <1>3, <1>4

LEMMA NextStagedSets ==
  ASSUME "lostAnswer" \notin Faults, "strategy" \notin Disturbances,
         RevisionInv, StagingInv, [Next]_vars
  PROVE  StagedSets'
<1>1. TypeOK /\ StagedSets /\ dep'.spec.strategy = dep.spec.strategy
  BY StrategyKept DEF RevisionInv, StagingInv
<1>2. CASE sets' = sets /\ (view' = view \/ view' = sets)
  BY <1>1, <1>2, SetsStayStaged
<1>3. CASE \/ Begin \/ Delete \/ CreationBackedOff \/ PublishStatus \/ Refresh \/ BackoffExpires
           \/ ApiError \/ Restart \/ UNCHANGED vars
  BY <1>2, <1>3 DEF Begin, Delete, ListSets, CreationBackedOff, PublishStatus, Refresh,
                    BackoffExpires, ApiError, Restart, Fail, vars
<1>4. ASSUME NEW s \in Sets, SetReports(s) \/ SetFinalized(s) \/ GarbageCollect(s) \/ DeleteSet(s)
      PROVE  StagedSets'
  <2>1. view' = view
    BY <1>4 DEF SetReports, SetFinalized, GarbageCollect, DeleteSet
  <2>2. \A t \in Existing(sets') : /\ t \in Existing(sets) /\ sets'[t].dist = sets[t].dist
                                   /\ sets'[t].replicas = sets[t].replicas
    <3>1. CASE DeleteSet(s)
      BY <1>1, <3>1 DEF DeleteSet, TypeOK, SetObject, Existing
    <3>2. CASE SetReports(s)
      BY <1>1, <3>2 DEF SetReports, TypeOK, SetObject, Existing
    <3>3. CASE SetFinalized(s)
      BY <1>1, <3>3, AbsentType DEF SetFinalized, TypeOK, SetObject, Existing
    <3>4. CASE GarbageCollect(s)
      BY <1>1, <3>4 DEF GarbageCollect, TypeOK, SetObject, Existing
    <3> QED
      BY <1>4, <3>1, <3>2, <3>3, <3>4
  <2> QED
    BY <1>1, <2>1, <2>2, SetsStayStaged
<1>5. CASE Outside
  BY <1>1, <1>5, OutsideIsQuiet, SetsStayStaged
<1>6. ASSUME NEW s \in Sets PROVE ~CreateAnswerLost(s)
  BY DEF CreateAnswerLost, Fail
<1> QED
  BY <1>3, <1>4, <1>5, <1>6, CreateStagedSets, SyncStagedSets, SwapStagedSets
     DEF Next, Controller

\* While users leave the strategy alone, two sets that run firewalls never announce
\* the shortest distance at once (setOverrides, rollingUpdateStrategy,
\* recreateStrategy).
THEOREM PreferredSetIsUnique ==
  ASSUME "lostAnswer" \notin Faults, "strategy" \notin Disturbances
  PROVE  Spec => []OnePreferredSet
<1>1. RevisionInv /\ StagingInv /\ [Next]_vars => StagingInv'
  BY NextStagedWork, NextFollowsStrategy, NextStagedSets DEF StagingInv
<1>2. StagingInv => OnePreferredSet
  <2> SUFFICES ASSUME StagingInv,
                      NEW s \in Existing(sets), NEW t \in Existing(sets),
                      sets[s].dist = FirewallShortestDistance, sets[s].replicas > 0,
                      sets[t].dist = FirewallShortestDistance, sets[t].replicas > 0
               PROVE  s = t
    BY DEF OnePreferredSet
  <2>1. Preferable(sets[s]) /\ Preferable(sets[t])
    BY DEF Preferable
  <2> QED
    BY <2>1 DEF StagingInv, StagedSets
<1> QED
  BY <1>1, <1>2, InitStaging, RevisionInvariant, PTL DEF Spec

-----------------------------------------------------------------------------
(* Bounded sets *)

\* What the reconcile knows of the newest set does not depend on answers.
LEMMA MovesOnLatest ==
  ASSUME LatestIsNewest, view' = view, MovesOn(work, work') PROVE LatestIsNewest'
<1>1. CASE work' = Idle
  BY <1>1 DEF Idle, LatestIsNewest
<1>2. CASE work' # Idle
  BY <1>2 DEF LatestIsNewest, MovesOn
<1> QED
  BY <1>1, <1>2

LEMMA WorkMovesOn ==
  ASSUME TypeOK, LatestIsNewest, [Next]_vars
  PROVE  \/ Begin \/ Delete \/ Refresh
         \/ work' = Idle
         \/ view' = view /\ (work' = work \/ MovesOn(work, work'))
<1>1. work \in Work
  BY DEF TypeOK
<1>2. ASSUME work' = Return(work) PROVE MovesOn(work, work')
  BY <1>1, <1>2, ReturnMovesOn
<1>3. ASSUME NEW ss \in SUBSET Sets, work' = deleteFirewallSets(work, view, ss)
      PROVE  MovesOn(work, work')
  BY <1>1, <1>3, DeletionMovesOn
<1>4. ASSUME NEW n \in Sets, createFirewallSet(n)
      PROVE  view' = view /\ (work' = Idle \/ MovesOn(work, work'))
  <2>1. \A ss \in IntermediateSets([view EXCEPT ![n] = NewSet]) : ss \in SUBSET Sets
    BY SubsetTypes
  <2> QED
    BY <1>3, <1>4, <2>1, SubsetTypes DEF createFirewallSet
<1>5. ASSUME NEW d \in Sets, DeleteSet(d) PROVE view' = view /\ MovesOn(work, work')
  <2>1. CASE work' = Proceed([work EXCEPT !.doomed = @ \ {d}])
    <3> DEFINE w == [work EXCEPT !.doomed = @ \ {d}]
    <3>1. w \in Work /\ w.latest = work.latest /\ w.flow = work.flow
      BY <1>1 DEF Work
    <3>2. MovesOn(w, work')
      BY <2>1, <3>1, ProceedMovesOn
    <3> QED
      BY <1>5, <3>1, <3>2 DEF MovesOn, DeleteSet
  <2> QED
    BY <1>2, <1>5, <2>1 DEF DeleteSet
<1>6. CASE syncFirewallSet
  <2>1. CASE work' = [work EXCEPT !.pc = "swap"]
    BY <1>1, <1>6, <2>1 DEF syncFirewallSet, LatestIsNewest, Work, MovesOn
  <2> QED
    BY <1>2, <1>3, <1>6, <2>1, SyncCases DEF syncFirewallSet
<1>7. CASE SwapDistance
  BY <1>1, <1>7 DEF SwapDistance, LatestIsNewest, Work, MovesOn
<1>8. CASE CreationBackedOff \/ PublishStatus \/ BackoffExpires \/ UNCHANGED vars
  BY <1>2, <1>8 DEF CreationBackedOff, PublishStatus, BackoffExpires, vars
<1>9. ASSUME NEW s \in Sets, SetReports(s) \/ SetFinalized(s) \/ GarbageCollect(s)
      PROVE  work' = work /\ view' = view
  BY <1>9 DEF SetReports, SetFinalized, GarbageCollect
<1>10. CASE Outside
  BY <1>10, OutsideIsQuiet
<1>11. CASE ApiError \/ Restart
  BY <1>2, <1>11 DEF ApiError, Restart
<1>12. ASSUME NEW s \in Sets, CreateAnswerLost(s) PROVE view' = view /\ MovesOn(work, work')
  BY <1>2, <1>12 DEF CreateAnswerLost
<1> QED
  BY <1>4, <1>5, <1>6, <1>7, <1>8, <1>9, <1>10, <1>11, <1>12 DEF Next, Controller

LEMMA NextLatest == TypeOK /\ LatestIsNewest /\ [Next]_vars => LatestIsNewest'
<1> SUFFICES ASSUME TypeOK, LatestIsNewest, [Next]_vars PROVE LatestIsNewest'
  OBVIOUS
<1>1. CASE Begin
  <2> DEFINE start == [Idle EXCEPT !.target = dep.spec]
             w(l) == [start EXCEPT !.latest = l]
  <2>1. start \in Work /\ \A l \in Sets : w(l) \in Work
    <3>1. dep.spec \in Target
      BY DEF TypeOK, DeploymentObject, Target
    <3> QED
      BY <3>1, IdleType DEF Work
  <2>2. CASE Existing(view) = {} /\ work' = [start EXCEPT !.pc = "create"]
    <3>1. work'.latest = None /\ work'.flow = "reconcile" /\ work'.pc = "create"
      BY <2>2 DEF Idle
    <3> QED
      BY <1>1, <2>2, <3>1 DEF LatestIsNewest, Begin, ListSets
  <2>3. ASSUME NEW l \in MaxRevisionOf(view),
               \/ work' = [w(l) EXCEPT !.pc = "create"]
               \/ work' = [w(l) EXCEPT !.pc = "sync"]
               \/ work' = deleteFirewallSets(w(l), view, Existing(view) \ {l})
        PROVE  LatestIsNewest'
    <3>1. l \in Sets /\ l # None /\ view' = view
      BY <1>1, SubsetTypes, ConstantsAssumption DEF Begin, ListSets
    <3>2. w(l) \in Work /\ w(l).latest = l /\ w(l).flow = "reconcile"
      BY <2>1, <3>1 DEF Idle
    <3>3. CASE \/ work' = [w(l) EXCEPT !.pc = "create"]
               \/ work' = [w(l) EXCEPT !.pc = "sync"]
      <4>1. work'.latest = l /\ work'.flow = "reconcile" /\ work'.pc \in {"create", "sync"}
        BY <3>2, <3>3 DEF Work
      <4> QED
        BY <3>1, <4>1 DEF LatestIsNewest
    <3>4. CASE work' = deleteFirewallSets(w(l), view, Existing(view) \ {l})
      <4>1. Existing(view) \ {l} \in SUBSET Sets
        BY SubsetTypes
      <4>2. MovesOn(w(l), work')
        BY <3>2, <3>4, <4>1, DeletionMovesOn
      <4> QED
        BY <3>1, <3>2, <4>2 DEF MovesOn, Idle, LatestIsNewest
    <3> QED
      BY <2>3, <3>3, <3>4
  <2> QED
    BY <1>1, <2>2, <2>3 DEF Begin
<1>2. CASE Delete
  <2>1. CASE work' = work
    BY <1>2, <2>1 DEF LatestIsNewest, Delete, ListSets
  <2>2. CASE work' = deleteFirewallSets([Idle EXCEPT !.flow = "finalize"], view, Existing(view))
    <3> DEFINE w == [Idle EXCEPT !.flow = "finalize"]
    <3>1. w \in Work /\ w.latest = None
      BY IdleType DEF Work, Idle
    <3>2. Existing(view) \in SUBSET Sets
      BY SubsetTypes
    <3>3. MovesOn(w, work')
      BY <2>2, <3>1, <3>2, DeletionMovesOn
    <3> QED
      BY <3>1, <3>3 DEF MovesOn, Idle, LatestIsNewest
  <2> QED
    BY <1>2, <2>1, <2>2 DEF Delete
<1>3. CASE Refresh
  BY <1>3 DEF Refresh, LatestIsNewest
<1>4. CASE work' = Idle
  BY <1>4 DEF Idle, LatestIsNewest
<1>5. CASE view' = view /\ work' = work
  BY <1>5 DEF LatestIsNewest
<1> QED
  BY <1>1, <1>2, <1>3, <1>4, <1>5, WorkMovesOn, MovesOnLatest

LEMMA LatestStaysNewest == Spec => [](TypeOK /\ LatestIsNewest)
<1>1. Init => LatestIsNewest
  BY InitRevisions DEF RevisionInv
<1> QED
  BY <1>1, NextLatest, TypeCorrect, PTL DEF Spec

\* A listed set that is live now was live when it was listed: terminating sets do
\* not come back.
ListedLive == \A s \in Existing(view) : sets[s].phase = "live" => view[s].phase = "live"

\* The live sets the list does not show: one the backoff is armed for, and those
\* whose creation was never answered.
Hidden == Live(sets) \ Live(view)
Covered == IF backoff THEN 1 ELSE 0

\* A rollout exceeds the bound by the new set, and then only as long as the first of
\* the sets that it decided to delete is still live.
BoundedInv ==
  /\ ListedLive
  /\ IsFiniteSet(Live(view)) /\ IsFiniteSet(Live(sets))
  /\ Cardinality(Live(view)) <= 2 + faults
  /\ Cardinality(Hidden) <= faults + Covered
  /\ Cardinality(Live(view) \cup Live(sets)) <= 2 + faults + Covered
  /\ \/ Cardinality(Live(sets)) <= 2 + faults
     \/ /\ work.pc = "delete" /\ work.doomed # {}
        /\ work.doomed \subseteq Live(sets)
        /\ Cardinality(Live(sets)) <= 3 + faults

LEMMA InitBounded == Init => BoundedInv
<1> SUFFICES ASSUME Init PROVE BoundedInv
  OBVIOUS
<1>1. Live(sets) = {} /\ Live(view) = {} /\ Existing(view) = {} /\ faults = 0
  BY AbsentType DEF Init, Live, Existing
<1>2. Hidden = {} /\ Live(view) \cup Live(sets) = {} /\ Covered \in 0..1
  BY <1>1 DEF Hidden, Covered
<1>3. IsFiniteSet({}) /\ Cardinality({}) = 0
  BY FS_EmptySet
<1> QED
  BY <1>1, <1>2, <1>3 DEF BoundedInv, ListedLive

LEMMA LiveCardinality ==
  ASSUME BoundedInv, TypeOK
  PROVE  /\ Cardinality(Live(sets)) \in Nat /\ Cardinality(Live(view)) \in Nat
         /\ IsFiniteSet(Hidden) /\ Cardinality(Hidden) \in Nat
         /\ IsFiniteSet(Live(view) \cup Live(sets))
         /\ Cardinality(Live(view) \cup Live(sets)) \in Nat
         /\ faults \in Nat /\ Covered \in Nat /\ Cardinality(Live(sets)) <= 3 + faults
<1>1. faults \in Nat /\ Covered \in Nat
  BY ConstantsAssumption DEF TypeOK, Covered
<1>2. IsFiniteSet(Live(sets)) /\ IsFiniteSet(Live(view))
  BY DEF BoundedInv
<1>3. IsFiniteSet(Hidden) /\ IsFiniteSet(Live(view) \cup Live(sets))
  BY <1>2, FS_Difference, FS_Union DEF Hidden
<1>4. /\ Cardinality(Live(sets)) \in Nat /\ Cardinality(Live(view)) \in Nat
      /\ Cardinality(Hidden) \in Nat /\ Cardinality(Live(view) \cup Live(sets)) \in Nat
  BY <1>2, <1>3, FS_CardinalityType
<1> QED
  BY <1>1, <1>3, <1>4 DEF BoundedInv

\* No set becomes live, and the list stays: the bound is kept if it held before,
\* if a set less is live, or if something failed.
LEMMA FewerStayBounded ==
  ASSUME BoundedInv, TypeOK, view' = view, Live(sets') \subseteq Live(sets),
         backoff' = backoff \/ Existing(sets) \subseteq Existing(view),
         backoff' \in BOOLEAN,
         faults' = faults \/ faults' = faults + 1,
         \/ work' = work
         \/ work.pc # "delete"
         \/ Live(sets') # Live(sets)
         \/ faults' = faults + 1
  PROVE  BoundedInv'
<1>1. /\ IsFiniteSet(Live(sets')) /\ Cardinality(Live(sets')) <= Cardinality(Live(sets))
      /\ Cardinality(Live(sets')) \in Nat
      /\ Live(sets') # Live(sets) => Cardinality(Live(sets')) # Cardinality(Live(sets))
  BY FS_Subset, FS_CardinalityType DEF BoundedInv
<1>2. ListedLive'
  BY SubsetTypes DEF ListedLive, BoundedInv, Live, Existing
<1>3. /\ Cardinality(Live(sets)) \in Nat /\ Cardinality(Live(view)) \in Nat
      /\ IsFiniteSet(Hidden) /\ Cardinality(Hidden) \in Nat
      /\ IsFiniteSet(Live(view) \cup Live(sets))
      /\ Cardinality(Live(view) \cup Live(sets)) \in Nat
      /\ faults \in Nat /\ Covered \in Nat /\ Cardinality(Live(sets)) <= 3 + faults
  BY LiveCardinality
<1>4. /\ IsFiniteSet(Live(view')) /\ Cardinality(Live(view')) <= 2 + faults'
      /\ Cardinality(Hidden) <= faults + Covered
      /\ Cardinality(Live(view) \cup Live(sets)) <= 2 + faults + Covered
  BY <1>3 DEF BoundedInv
<1>5. /\ Cardinality(Hidden') <= Cardinality(Hidden) /\ Cardinality(Hidden') \in Nat
      /\ Cardinality(Live(view') \cup Live(sets')) <= Cardinality(Live(view) \cup Live(sets))
      /\ Cardinality(Live(view') \cup Live(sets')) \in Nat
  <2>1. Hidden' \subseteq Hidden /\ Live(view') \cup Live(sets') \subseteq Live(view) \cup Live(sets)
    BY DEF Hidden
  <2> QED
    BY <1>3, <2>1, FS_Subset, FS_CardinalityType
<1>6. /\ Cardinality(Hidden') <= faults' + Covered'
      /\ Cardinality(Live(view') \cup Live(sets')) <= 2 + faults' + Covered'
  <2>1. CASE backoff' = backoff
    <3>1. Covered' = Covered
      BY <2>1 DEF Covered
    <3> QED
      BY <1>3, <1>4, <1>5, <3>1
  <2>2. CASE Existing(sets) \subseteq Existing(view)
    <3>1. Live(sets) \subseteq Live(view)
      BY <2>2 DEF BoundedInv, ListedLive, Live, Existing
    <3>2. Hidden' = {} /\ Live(view') \cup Live(sets') = Live(view')
      BY <3>1 DEF Hidden
    <3>3. Cardinality({}) = 0
      BY FS_EmptySet
    <3>4. Covered' \in Nat
      BY DEF Covered
    <3>5. Cardinality(Hidden') = 0
      BY <3>2, <3>3
    <3>6. Cardinality(Live(view') \cup Live(sets')) <= 2 + faults'
      BY <1>4, <3>2
    <3> QED
      BY <1>3, <1>5, <3>4, <3>5, <3>6
  <2> QED
    BY <2>1, <2>2
<1>7. CASE Cardinality(Live(sets')) <= 2 + faults'
  BY <1>1, <1>2, <1>4, <1>6, <1>7 DEF BoundedInv
<1>8. CASE ~(Cardinality(Live(sets')) <= 2 + faults')
  <2>1. ~(Cardinality(Live(sets)) <= 2 + faults)
    BY <1>1, <1>3, <1>8
  <2>2. Live(sets') = Live(sets) /\ faults' = faults
    BY <1>1, <1>3, <1>8
  <2>3. work' = work
    BY <2>1, <2>2, <1>3 DEF BoundedInv
  <2> QED
    BY <1>1, <1>2, <1>4, <1>6, <2>1, <2>2, <2>3 DEF BoundedInv
<1> QED
  BY <1>7, <1>8

LEMMA RefreshStaysBounded ==
  ASSUME BoundedInv, TypeOK, view' = sets, sets' = sets, backoff' \in BOOLEAN,
         (work.pc # "delete" /\ faults' = faults) \/ faults' = faults + 1
  PROVE  BoundedInv'
<1>1. /\ Cardinality(Live(sets)) \in Nat /\ faults \in Nat
      /\ Cardinality(Live(sets)) <= 3 + faults
  BY LiveCardinality
<1>2. Cardinality(Live(sets)) <= 2 + faults'
  BY <1>1 DEF BoundedInv
<1>3. Hidden' = {} /\ Live(view') \cup Live(sets') = Live(sets) /\ Covered' \in Nat
  BY DEF Hidden, Covered
<1>4. Cardinality({}) = 0
  BY FS_EmptySet
<1>5. Cardinality(Hidden') = 0 /\ faults' \in Nat
  BY <1>1, <1>3, <1>4
<1>6. Cardinality(Live(view') \cup Live(sets')) <= 2 + faults'
  BY <1>2, <1>3
<1>7. /\ Cardinality(Hidden') <= faults' + Covered'
      /\ Cardinality(Live(view') \cup Live(sets')) <= 2 + faults' + Covered'
  <2>1. Cardinality(Live(view') \cup Live(sets')) \in Nat
    BY <1>1, <1>3
  <2> QED
    BY <1>3, <1>5, <1>6, <2>1
<1>8. /\ Live(view') = Live(sets) /\ Live(sets') = Live(sets) /\ IsFiniteSet(Live(sets))
      /\ ListedLive'
  BY DEF BoundedInv, ListedLive
<1>9. Cardinality(Live(view')) <= 2 + faults' /\ Cardinality(Live(sets')) <= 2 + faults'
  BY <1>2, <1>8
<1> QED
  BY <1>7, <1>8, <1>9 DEF BoundedInv

\* A new set is one more, which the backoff or a failure accounts for.
LEMMA OneMore ==
  ASSUME NEW h \in Nat, NEW f \in Nat, NEW c \in Nat, NEW b \in Nat, b + c = f + 1, h <= f
  PROVE  h + 1 <= b + c
OBVIOUS

LEMMA TwoMore ==
  ASSUME NEW h \in Nat, NEW f \in Nat, NEW c \in Nat, NEW b \in Nat, b + c = f + 1, h <= 2 + f
  PROVE  h + 1 <= 2 + b + c
OBVIOUS

LEMMA CreatedIsCounted ==
  ASSUME TypeOK, BoundedInv, NEW n \in Fresh, sets' = [sets EXCEPT ![n] = NewSet],
         view' = view, Covered = 0, work.pc = "create",
         faults' + Covered' = faults + 1, faults' \in Nat, Covered' \in Nat
  PROVE  /\ ListedLive'
         /\ n \notin Live(sets) /\ n \notin Live(view) /\ Live(sets') = Live(sets) \cup {n}
         /\ IsFiniteSet(Live(sets'))
         /\ Cardinality(Live(sets)) <= 2 + faults
         /\ Cardinality(Live(sets')) = Cardinality(Live(sets)) + 1
         /\ Cardinality(Hidden') <= faults' + Covered'
         /\ Cardinality(Live(view') \cup Live(sets')) <= 2 + faults' + Covered'
<1>1. n \in Sets /\ n \notin Existing(sets) /\ n \notin Existing(view)
  BY DEF Fresh
<1>2. Live(sets') = Live(sets) \cup {n} /\ n \notin Live(sets) /\ n \notin Live(view)
  BY <1>1, NewSetType DEF Existing, Live, TypeOK
<1>3. /\ Hidden' = Hidden \cup {n} /\ n \notin Hidden
      /\ Live(view') \cup Live(sets') = (Live(view) \cup Live(sets)) \cup {n}
      /\ n \notin Live(view) \cup Live(sets)
  BY <1>2 DEF Hidden
<1>4. /\ IsFiniteSet(Hidden) /\ Cardinality(Hidden) \in Nat
      /\ IsFiniteSet(Live(view) \cup Live(sets))
      /\ Cardinality(Live(view) \cup Live(sets)) \in Nat
      /\ faults \in Nat /\ IsFiniteSet(Live(sets))
  BY LiveCardinality DEF BoundedInv
<1>5. Cardinality(Hidden') = Cardinality(Hidden) + 1
  BY <1>3, <1>4, FS_AddElement
<1>6. Cardinality(Live(view') \cup Live(sets')) = Cardinality(Live(view) \cup Live(sets)) + 1
  BY <1>3, <1>4, FS_AddElement
<1>7. IsFiniteSet(Live(sets')) /\ Cardinality(Live(sets')) = Cardinality(Live(sets)) + 1
  <2>1. /\ IsFiniteSet(Live(sets) \cup {n})
        /\ Cardinality(Live(sets) \cup {n}) = Cardinality(Live(sets)) + 1
    BY <1>2, <1>4, FS_AddElement
  <2> QED
    BY <1>2, <2>1
<1>8. /\ Cardinality(Hidden) <= faults
      /\ Cardinality(Live(view) \cup Live(sets)) <= 2 + faults
  BY <1>4 DEF BoundedInv
<1>9. Cardinality(Live(sets)) <= 2 + faults
  BY DEF BoundedInv
<1>10. ListedLive'
  BY <1>1 DEF BoundedInv, ListedLive, Existing, TypeOK
<1>11. Cardinality(Hidden') <= faults' + Covered'
  BY <1>4, <1>5, <1>8, OneMore
<1>12. Cardinality(Live(view') \cup Live(sets')) <= 2 + faults' + Covered'
  BY <1>4, <1>6, <1>8, TwoMore
<1> QED
  BY <1>2, <1>7, <1>9, <1>10, <1>11, <1>12

LEMMA CreateBounded ==
  ASSUME TypeOK, LatestIsNewest, BoundedInv, NEW n \in Sets, createFirewallSet(n)
  PROVE  BoundedInv'
<1>1. work \in Work
  BY DEF TypeOK
<1>2. /\ view' = view /\ faults' = faults /\ ~backoff /\ backoff' /\ work.pc = "create"
      /\ sets' = [sets EXCEPT ![n] = NewSet] /\ n \in Fresh
  BY DEF createFirewallSet, env
<1>3. Covered = 0 /\ Covered' = 1
  BY <1>2 DEF Covered
<1>4. /\ IsFiniteSet(Live(view)) /\ IsFiniteSet(Live(sets)) /\ IsFiniteSet(Hidden)
      /\ IsFiniteSet(Live(view) \cup Live(sets))
  BY LiveCardinality DEF BoundedInv
<1>5. faults \in Nat /\ Cardinality(Live(sets)) \in Nat /\ Cardinality(Live(view)) \in Nat
  BY LiveCardinality
<1>6. faults' + Covered' = faults + 1 /\ faults' \in Nat /\ Covered' \in Nat
  BY <1>2, <1>3, <1>5
<1>7. /\ ListedLive'
      /\ n \notin Live(sets) /\ n \notin Live(view) /\ Live(sets') = Live(sets) \cup {n}
      /\ IsFiniteSet(Live(sets'))
      /\ Cardinality(Live(sets)) <= 2 + faults
      /\ Cardinality(Live(sets')) = Cardinality(Live(sets)) + 1
      /\ Cardinality(Hidden') <= faults' + Covered'
      /\ Cardinality(Live(view') \cup Live(sets')) <= 2 + faults' + Covered'
  BY <1>2, <1>3, <1>6, CreatedIsCounted
<1>8. IsFiniteSet(Live(view')) /\ Cardinality(Live(view')) <= 2 + faults'
  BY <1>2 DEF BoundedInv
<1>9. ASSUME Cardinality(Live(sets')) <= 2 + faults PROVE BoundedInv'
  <2>1. Cardinality(Live(sets')) <= 2 + faults'
    BY <1>2, <1>9
  <2> QED
    BY <1>7, <1>8, <2>1 DEF BoundedInv
<1>10. Cardinality(Hidden') <= faults + 1
  BY <1>5, <1>2, <1>3, <1>7
<1>11. IsFiniteSet(Hidden') /\ Hidden' = Hidden \cup {n}
  <2>1. Hidden' = Hidden \cup {n}
    BY <1>2, <1>7 DEF Hidden
  <2> QED
    BY <1>4, <2>1, FS_AddElement
<1>12. Cardinality(Hidden') \in Nat /\ Cardinality(Live(sets')) \in Nat
  BY <1>7, <1>11, FS_CardinalityType
\* Either everything that is to be deleted is still live, or the list was longer.
<1>13. ASSUME NEW ss \in SUBSET Sets, work' = deleteFirewallSets(work, view, ss),
              NEW o, Live(view) \ {o} \subseteq ss
       PROVE  BoundedInv'
  <2>1. /\ work'.pc = "delete" <=> work'.doomed # {}
        /\ work'.pc = "delete" => work'.doomed = ss \cap Live(view)
    BY <1>1, <1>13, DeletionResult
  <2>2. CASE work'.doomed = {}
    <3>1. ss \cap Live(view) = {}
      <4> DEFINE w == [work EXCEPT !.doomed = ss \cap Live(view), !.waiting = (ss # {})]
      <4>1. w.doomed = ss \cap Live(view)
        BY <1>1 DEF Work
      <4>2. work' = Proceed(w)
        BY <1>13 DEF deleteFirewallSets
      <4>3. w.doomed # {} => work' = [w EXCEPT !.pc = "delete"]
        BY <4>2 DEF Proceed
      <4>4. w.doomed # {} => work'.doomed = w.doomed
        BY <1>1, <4>3 DEF Work
      <4> HIDE DEF w
      <4> QED
        BY <2>2, <4>1, <4>4
    <3>2. Live(sets') \subseteq Hidden' \cup {o}
      BY <1>7, <1>11, <1>13, <3>1 DEF Hidden
    <3>3. /\ IsFiniteSet(Hidden' \cup {o})
          /\ Cardinality(Hidden' \cup {o}) = IF o \in Hidden' THEN Cardinality(Hidden')
                                                              ELSE Cardinality(Hidden') + 1
      BY <1>11, FS_AddElement
    <3>4. Cardinality(Live(sets')) <= Cardinality(Hidden' \cup {o})
      BY <3>2, <3>3, FS_Subset
    <3>5. Cardinality(Hidden' \cup {o}) <= Cardinality(Hidden') + 1
      BY <1>12, <3>3
    <3>6. Cardinality(Hidden' \cup {o}) \in Nat
      BY <3>3, FS_CardinalityType
    <3>7. Cardinality(Live(sets')) <= 2 + faults
      BY <1>5, <1>10, <1>12, <3>4, <3>5, <3>6
    <3> QED
      BY <1>9, <3>7
  <2>3. CASE work'.doomed # {} /\ work'.doomed \subseteq Live(sets')
    <3>1. Cardinality(Live(sets')) <= 3 + faults'
      BY <1>2, <1>5, <1>7
    <3>2. work'.pc = "delete"
      BY <2>1, <2>3
    <3> QED
      BY <1>7, <1>8, <2>3, <3>1, <3>2 DEF BoundedInv
  <2>4. ASSUME NEW x \in work'.doomed, x \notin Live(sets') PROVE BoundedInv'
    <3> DEFINE All == Live(view') \cup Live(sets')
    <3>1. x \in Live(view)
      BY <2>1, <2>4
    <3>2. x \in All /\ Live(sets') \subseteq All \ {x}
      BY <1>2, <2>4, <3>1
    <3>3. IsFiniteSet(All)
      BY <1>7, <1>8, FS_Union
    <3>4. Cardinality(All) \in Nat
      BY <3>3, FS_CardinalityType
    <3>5. Cardinality(All) <= 3 + faults
      BY <1>2, <1>3, <1>5, <1>7, <3>4
    <3> HIDE DEF All
    <3>6. IsFiniteSet(All \ {x}) /\ Cardinality(All \ {x}) = Cardinality(All) - 1
      BY <3>2, <3>3, FS_RemoveElement
    <3>7. Cardinality(Live(sets')) <= Cardinality(All \ {x})
      BY <3>2, <3>6, FS_Subset
    <3>8. Cardinality(All \ {x}) = Cardinality(All) - 1
      BY <3>6
    <3>9. Cardinality(Live(sets')) <= 2 + faults
      BY <1>5, <1>12, <3>4, <3>5, <3>7, <3>8
    <3> QED
      BY <1>9, <3>9
  <2> QED
    BY <2>2, <2>3, <2>4
<1>14. work.latest = None <=> Existing(view) = {}
  BY <1>2, NewSetIsNewest
<1>15. CASE work.latest = None
  <2>1. Live(sets') = Hidden'
    BY <1>2, <1>7, <1>14, <1>15, SubsetTypes DEF Hidden
  <2>2. Cardinality(Live(sets')) <= 2 + faults
    BY <1>5, <1>10, <1>12, <2>1
  <2> QED
    BY <1>9, <2>2
<1>16. CASE work' = deleteFirewallSets(work, view, Existing(view))
  BY <1>13, <1>16, SubsetTypes
<1>17. ASSUME work.latest # None,
              NEW ss \in IntermediateSets([view EXCEPT ![n] = NewSet]),
              work' = deleteFirewallSets(work, view, ss)
       PROVE  BoundedInv'
  <2>1. PICK o \in Existing(view) : ss = Existing(view) \ {o}
    BY <1>2, <1>14, <1>17, NewSetIsKept
  <2>2. ss \in SUBSET Sets /\ Live(view) \ {o} \subseteq ss
    BY <2>1, SubsetTypes
  <2> QED
    BY <1>13, <1>17, <2>2
<1> QED
  BY <1>15, <1>16, <1>17 DEF createFirewallSet

\* A set whose creation was not answered is a failure more.
LEMMA LostBounded ==
  ASSUME TypeOK, BoundedInv, NEW n \in Sets, CreateAnswerLost(n)
  PROVE  BoundedInv'
<1>1. /\ view' = view /\ faults' = faults + 1 /\ ~backoff /\ backoff' = backoff
      /\ work.pc = "create" /\ sets' = [sets EXCEPT ![n] = NewSet] /\ n \in Fresh
  BY DEF CreateAnswerLost, Fail
<1>2. Covered = 0 /\ Covered' = 0
  BY <1>1 DEF Covered
<1>3. faults \in Nat /\ Cardinality(Live(sets)) \in Nat /\ Cardinality(Live(view)) \in Nat
  BY LiveCardinality
<1>4. faults' + Covered' = faults + 1 /\ faults' \in Nat /\ Covered' \in Nat
  BY <1>1, <1>2, <1>3
<1>5. /\ ListedLive'
      /\ IsFiniteSet(Live(sets'))
      /\ Cardinality(Live(sets)) <= 2 + faults
      /\ Cardinality(Live(sets')) = Cardinality(Live(sets)) + 1
      /\ Cardinality(Hidden') <= faults' + Covered'
      /\ Cardinality(Live(view') \cup Live(sets')) <= 2 + faults' + Covered'
  BY <1>1, <1>2, <1>4, CreatedIsCounted
<1>6. Cardinality(Live(sets')) <= 2 + faults'
  BY <1>1, <1>3, <1>5
<1>7. IsFiniteSet(Live(view')) /\ Live(view') = Live(view)
  BY <1>1 DEF BoundedInv
<1>8. Cardinality(Live(view')) <= 2 + faults'
  <2>1. Cardinality(Live(view)) <= 2 + faults
    BY DEF BoundedInv
  <2> QED
    BY <1>1, <1>3, <1>7, <2>1
<1> QED
  BY <1>5, <1>6, <1>7, <1>8 DEF BoundedInv

LEMMA NextBounded ==
  ASSUME TypeOK, LatestIsNewest, BoundedInv, [Next]_vars
  PROVE  BoundedInv'
<1>1. work \in Work /\ backoff \in BOOLEAN
  BY DEF TypeOK
\* The steps that leave the life cycle of the sets alone.
<1>2. ASSUME view' = view, faults' = faults, backoff' = backoff, Live(sets') = Live(sets),
             work' = work \/ work.pc # "delete"
      PROVE  BoundedInv'
  BY <1>1, <1>2, FewerStayBounded
<1>3. CASE Begin \/ Delete \/ CreationBackedOff \/ SwapDistance
  <2>1. Live(sets') = Live(sets)
    <3>1. CASE sets' = sets
      BY <3>1
    <3>2. CASE SwapDistance
      BY <1>1, <3>2 DEF SwapDistance, Live, TypeOK, SetObject
    <3> QED
      BY <1>3, <3>1, <3>2 DEF Begin, Delete, CreationBackedOff
  <2> QED
    BY <1>2, <1>3, <2>1 DEF Begin, Delete, ListSets, CreationBackedOff, SwapDistance, env
<1>4. CASE syncFirewallSet
  <2> DEFINE l == work.latest
             new == [sets[l] EXCEPT !.replicas = work.target.replicas,
                                    !.image = work.target.image,
                                    !.rules = work.target.rules]
  <2>1. l \in Sets => new.phase = sets[l].phase
    BY <1>1 DEF TypeOK, SetObject
  <2>2. sets' = sets \/ sets' = [sets EXCEPT ![l] = new]
    BY <1>4 DEF syncFirewallSet
  <2> HIDE DEF new
  <2>3. Live(sets') = Live(sets)
    BY <1>1, <2>1, <2>2 DEF TypeOK, Live
  <2> QED
    BY <1>2, <1>4, <2>3 DEF syncFirewallSet, env
<1>5. ASSUME NEW d \in Sets, DeleteSet(d) PROVE BoundedInv'
  <2>1. /\ view' = view /\ faults' = faults /\ backoff' = backoff
        /\ work.pc = "delete" /\ d \in work.doomed
    BY <1>5 DEF DeleteSet, env
  <2>2. CASE d \in Live(sets)
    <3>1. Live(sets') = Live(sets) \ {d}
      BY <1>5, <2>2 DEF DeleteSet, Live, TypeOK, SetObject
    <3> QED
      BY <1>1, <2>1, <2>2, <3>1, FewerStayBounded
  <2>3. CASE d \notin Live(sets)
    <3>1. Live(sets') = Live(sets)
      BY <1>5, <2>3 DEF DeleteSet, Live, TypeOK, SetObject
    <3>2. Cardinality(Live(sets)) <= 2 + faults
      BY <2>1, <2>3 DEF BoundedInv
    <3>3. ListedLive'
      BY <1>5, <2>1, <2>3 DEF BoundedInv, ListedLive, DeleteSet, Live, Existing, TypeOK, SetObject
    <3>4. Hidden' = Hidden /\ Covered' = Covered
      BY <2>1, <3>1 DEF Hidden, Covered
    <3> QED
      BY <2>1, <3>1, <3>2, <3>3, <3>4 DEF BoundedInv
  <2> QED
    BY <2>2, <2>3
<1>6. CASE PublishStatus
  <2>1. /\ sets' = sets /\ faults' = faults /\ backoff' = backoff /\ work.pc # "delete"
        /\ view' = view \/ view' = sets
    BY <1>6 DEF PublishStatus, env
  <2> QED
    BY <1>1, <1>2, <2>1, RefreshStaysBounded
<1>7. CASE Refresh
  BY <1>1, <1>7, RefreshStaysBounded DEF Refresh, env
<1>8. CASE BackoffExpires
  BY <1>8, FewerStayBounded DEF BackoffExpires, BackoffOver, env
<1>9. CASE UNCHANGED vars
  BY <1>2, <1>9 DEF vars, env
<1>10. ASSUME NEW s \in Sets, SetReports(s) \/ SetFinalized(s)
       PROVE  BoundedInv'
  <2>1. Live(sets') = Live(sets)
    BY <1>10, AbsentType DEF SetReports, SetFinalized, Live, TypeOK, SetObject
  <2> QED
    BY <1>2, <1>10, <2>1 DEF SetReports, SetFinalized, env
<1>11. ASSUME NEW s \in Sets, GarbageCollect(s) PROVE BoundedInv'
  <2>1. /\ view' = view /\ work' = work /\ faults' = faults /\ backoff' = backoff
        /\ Live(sets') \subseteq Live(sets)
    BY <1>11 DEF GarbageCollect, Live, TypeOK, SetObject, env
  <2> QED
    BY <1>1, <2>1, FewerStayBounded
<1>12. CASE Outside
  <2>1. /\ work' = work /\ view' = view /\ Live(sets') = Live(sets)
    BY <1>12, OutsideIsQuiet
  <2>2. faults' = faults /\ backoff' = backoff
    BY <1>12 DEF Outside, ChangeImage, ChangeRules, Scale, ChangeStrategy, DeleteDeployment,
                 RollSet, Degrade, Disturb
  <2> QED
    BY <1>2, <2>1, <2>2
<1>13. CASE ApiError
  BY <1>1, <1>13, FewerStayBounded DEF ApiError, Fail
<1>14. CASE Restart
  BY <1>14, RefreshStaysBounded DEF Restart, Fail
<1> QED
  BY <1>3, <1>4, <1>5, <1>6, <1>7, <1>8, <1>9, <1>10, <1>11, <1>12, <1>13, <1>14,
     CreateBounded, LostBounded DEF Next, Controller

\* Quick successive changes do not pile up sets: between two reconciles there are at
\* most the oldest and the newest one, and one for each failure (cleanupIntermediateSets).
\* The bound holds even where a creation is carried out and its answer is lost.
THEOREM SetsStayBounded == Spec => []SetsBounded
<1>1. TypeOK /\ LatestIsNewest /\ BoundedInv /\ [Next]_vars => BoundedInv'
  BY NextBounded
<1>2. BoundedInv => SetsBounded
  BY DEF BoundedInv, SetsBounded
<1> QED
  BY <1>1, <1>2, InitBounded, LatestStaysNewest, PTL DEF Spec

-----------------------------------------------------------------------------
(* Service during a rolling update *)

\* The set is what the user asked for: no newer one is due.
Wanted(set) == set.image = dep.spec.image /\ ~set.roll

\* What the reconciler reads in its list may be old, but not misleading.
CopiesAgree ==
  \A s \in Existing(sets) \cap Existing(view) :
    /\ view[s].image = sets[s].image
    /\ view[s].roll => sets[s].roll
    /\ view[s].ready > 0 => sets[s].ready > 0

\* Nobody scaled to zero, so a set that serves loses nothing by being scaled.
FirewallsAsked ==
  /\ dep.spec.replicas > 0
  /\ \A s \in Existing(sets) : sets[s].ready > 0 => sets[s].replicas > 0

\* No rollout.
Alone(n) == Existing(sets) = {n} /\ Existing(view) \subseteq {n}

\* A rollout from an older set, which the list still shows, to the wanted set n,
\* which has not taken over.
Arriving(n) ==
  /\ Wanted(sets[n]) /\ ~Preferable(sets[n])
  /\ \E o \in Sets \ {n} :
       /\ Existing(sets) \subseteq {o, n} /\ o \in Existing(view) /\ Existing(view) \subseteq {o, n}
       /\ view[o].rev < sets[n].rev
  /\ dep.spec.strategy = RollingUpdate =>
       sets[n].replicas > 0 /\ (n \in Existing(view) => view[n].replicas > 0)

OneRollout ==
  \/ Existing(sets) = {} /\ Existing(view) = {}
  \/ \E n \in Live(sets) : Alone(n) \/ Arriving(n)

SteadySets == dep.phase = "present" /\ CopiesAgree /\ FirewallsAsked /\ OneRollout

\* A set is given up only while another one serves, and stays.
ServiceSpared ==
  dep.spec.strategy = RollingUpdate /\ work.doomed # {} =>
    \E n \in Live(sets) \ work.doomed : sets[n].ready > 0

\* A creation that the backoff does not stop starts the one rollout that is due.
CreationDue ==
  work.pc = "create" /\ Existing(sets) \subseteq Existing(view) =>
    /\ work.target.image = dep.spec.image /\ work.target.strategy = dep.spec.strategy
    /\ Existing(view) = Existing(sets)
    /\ work.latest # None => Existing(sets) = {work.latest} /\ ~Wanted(sets[work.latest])

\* Syncing does not change the image, and works for an outdated strategy only when
\* there is one set.
UpdateInPlace ==
  /\ work.pc = "sync" => work.target.image = view[work.latest].image
  /\ work.pc \in {"sync", "swap"} /\ work.target.strategy # dep.spec.strategy =>
       \E n \in Live(sets) : Alone(n)

SteadyWork ==
  /\ work.pc \in {"create", "sync"} => work.target.replicas > 0
  /\ ServiceSpared /\ CreationDue /\ UpdateInPlace

\* Users who let every rollout finish keep the deployment in this state.
SteadyInv == ~disrupted => SteadySets /\ SteadyWork

LEMMA InitSteady ==
  ASSUME 0 \notin ReplicaCounts PROVE Init => SteadyInv
<1> SUFFICES ASSUME Init PROVE SteadySets /\ SteadyWork
  BY DEF SteadyInv
<1>1. Existing(sets) = {} /\ Existing(view) = {} /\ work.pc = "idle" /\ work.doomed = {}
  BY AbsentType, IdleType DEF Init, Existing, Idle
<1>2. dep.phase = "present" /\ dep.spec.replicas > 0
  BY ConstantsAssumption DEF Init
<1> QED
  BY <1>1, <1>2 DEF SteadySets, SteadyWork, CopiesAgree, FirewallsAsked, OneRollout,
                    ServiceSpared, CreationDue, UpdateInPlace

\* A reconcile that ends, or none at all.
LEMMA WorkEndsSteady ==
  ASSUME work'.pc \in {"idle", "status"}, work'.doomed = {} PROVE SteadyWork'
BY DEF SteadyWork, ServiceSpared, CreationDue, UpdateInPlace

LEMMA SetsStaySteady ==
  ASSUME SteadySets, sets' = sets, view' = view, dep'.spec = dep.spec, dep'.phase = dep.phase
  PROVE  SteadySets'
<1>1. /\ CopiesAgree' <=> CopiesAgree
      /\ FirewallsAsked' <=> FirewallsAsked
  BY DEF CopiesAgree, FirewallsAsked
<1>2. OneRollout' <=> OneRollout
  BY DEF OneRollout, Alone, Arriving, Wanted, Preferable
<1> QED
  BY <1>1, <1>2 DEF SteadySets

\* The list catches up with the sets.
LEMMA RefreshSteady ==
  ASSUME RevisionInv, SteadySets, sets' = sets, view' = sets, dep' = dep
  PROVE  SteadySets'
<1>1. CopiesAgree' /\ FirewallsAsked'
  BY DEF CopiesAgree, FirewallsAsked, SteadySets
<1>2. ASSUME NEW n \in Live(sets), Alone(n) PROVE Alone(n)'
  BY <1>2 DEF Alone
<1>3. ASSUME NEW n \in Live(sets), Arriving(n) PROVE Alone(n)' \/ Arriving(n)'
  <2>1. PICK o \in Sets \ {n} :
          /\ Existing(sets) \subseteq {o, n} /\ o \in Existing(view)
          /\ view[o].rev < sets[n].rev
    BY <1>3 DEF Arriving
  <2>2. n \in Existing(sets)
    BY SubsetTypes
  <2>3. CASE o \in Existing(sets)
    <3>1. sets[o].rev = view[o].rev
      BY <2>1, <2>3 DEF RevisionInv, ViewIsCurrent
    <3> QED
      BY <1>3, <2>1, <2>3, <3>1 DEF Arriving, Wanted, Preferable
  <2>4. CASE o \notin Existing(sets)
    BY <2>1, <2>2, <2>4 DEF Alone
  <2> QED
    BY <2>3, <2>4
<1>4. OneRollout'
  BY <1>2, <1>3 DEF OneRollout, SteadySets
<1> QED
  BY <1>1, <1>4 DEF SteadySets

\* The set that stays is never among those to delete.
LEMMA NewestStays ==
  ASSUME RevisionInv, SteadySets, NEW n \in Live(sets), Alone(n) \/ Arriving(n)
  PROVE  n \notin work.doomed
<1>1. n \in Sets /\ n \in Existing(sets) /\ TypeOK
  BY SubsetTypes DEF RevisionInv
<1>2. /\ \A s \in Sets : sets[s].rev \in Nat /\ view[s].rev \in Nat
      /\ \A s \in Existing(sets) \cap Existing(view) : sets[s].rev = view[s].rev
  BY <1>1 DEF RevisionInv, ViewIsCurrent, TypeOK, SetObject
<1>3. PICK l \in Live(sets) :
        /\ \A s \in Existing(sets) : sets[s].rev <= sets[l].rev
        /\ \A s \in work.doomed : view[s].rev < sets[l].rev
  BY <1>1 DEF RevisionInv, ALeaderLives, Managed, SteadySets
<1>4. l \in Existing(sets) /\ l \in Sets /\ work.doomed \subseteq Existing(view)
  BY SubsetTypes DEF RevisionInv, ALeaderLives
<1>5. l = n
  <2>1. CASE Alone(n)
    BY <1>4, <2>1 DEF Alone
  <2>2. CASE Arriving(n)
    <3>1. PICK o \in Sets \ {n} :
            /\ Existing(sets) \subseteq {o, n} /\ o \in Existing(view)
            /\ view[o].rev < sets[n].rev
      BY <2>2 DEF Arriving
    <3>2. ASSUME l = o PROVE FALSE
      <4>1. sets[l].rev = view[o].rev /\ sets[n].rev <= sets[l].rev
        BY <1>1, <1>2, <1>3, <1>4, <3>1, <3>2
      <4> QED
        BY <1>1, <1>2, <3>1, <4>1
    <3> QED
      BY <1>4, <3>1, <3>2
  <2> QED
    BY <2>1, <2>2
<1>6. ASSUME n \in work.doomed PROVE FALSE
  <2>1. view[n].rev < sets[n].rev /\ view[n].rev = sets[n].rev
    BY <1>1, <1>2, <1>3, <1>4, <1>5, <1>6
  <2> QED
    BY <1>1, <1>2, <2>1
<1> QED
  BY <1>6

\* A listed new set is the newest one, and the older one is the only other.
LEMMA ArrivingIsNewest ==
  ASSUME RevisionInv, NEW n \in Live(sets), Arriving(n), n \in Existing(view),
         NEW l \in MaxRevisionOf(view)
  PROVE  l = n
<1>1. PICK o \in Sets \ {n} :
        Existing(view) \subseteq {o, n} /\ o \in Existing(view) /\ view[o].rev < sets[n].rev
  BY DEF Arriving
<1>2. l \in Existing(view) /\ view[n].rev <= view[l].rev
  BY DEF MaxRevisionOf
<1>3. n \in Sets /\ n \in Existing(sets)
  BY SubsetTypes
<1>4. sets[n].rev = view[n].rev /\ view[n].rev \in Nat /\ view[o].rev \in Nat
  BY <1>3 DEF RevisionInv, ViewIsCurrent, TypeOK, SetObject
<1>5. l # o
  BY <1>1, <1>2, <1>4
<1> QED
  BY <1>1, <1>2, <1>5

-----------------------------------------------------------------------------

LEMMA BeginSteady ==
  ASSUME RevisionInv, SteadySets, Begin
  PROVE  SteadySets' /\ SteadyWork'
<1>1. TypeOK /\ view' = view /\ sets' = sets /\ dep'.spec = dep.spec /\ dep'.phase = dep.phase
  BY DEF Begin, ListSets, RevisionInv, TypeOK, DeploymentObject
<1>2. SteadySets' /\ dep.spec.replicas > 0
  BY <1>1, SetsStaySteady DEF SteadySets, FirewallsAsked
<1> DEFINE start == [Idle EXCEPT !.target = dep.spec]
           w(l) == [start EXCEPT !.latest = l]
<1>3. /\ start \in Work /\ start.target = dep.spec /\ start.doomed = {} /\ start.latest = None
      /\ \A l \in Sets : w(l) \in Work
  <2>1. dep.spec \in Target
    BY <1>1 DEF TypeOK, DeploymentObject, Target
  <2> QED
    BY <2>1, IdleType DEF Work, Idle
<1>4. ASSUME NEW l \in MaxRevisionOf(view) PROVE
        /\ l \in Sets /\ l \in Existing(view) /\ w(l) \in Work
        /\ w(l).target = dep.spec /\ w(l).latest = l /\ w(l).doomed = {}
  BY <1>3, SubsetTypes DEF Idle
<1>5. CASE Existing(view) = {} /\ work' = [start EXCEPT !.pc = "create"]
  <2>1. work'.pc = "create" /\ work'.target = dep.spec /\ work'.doomed = {} /\ work'.latest = None
    BY <1>3, <1>5 DEF Work
  <2> QED
    BY <1>1, <1>2, <1>5, <2>1 DEF SteadyWork, ServiceSpared, CreationDue, UpdateInPlace
\* A list without the new set shows the old one only; with the new set, that one is
\* as wanted.
<1>6. ASSUME NEW l \in MaxRevisionOf(view), isNewSetRequired(dep.spec, view[l]),
             Existing(sets) \subseteq Existing(view)
      PROVE  Existing(view) = Existing(sets) /\ Existing(sets) = {l} /\ ~Wanted(sets[l])
  <2>1. PICK n \in Live(sets) : Alone(n) \/ Arriving(n)
    BY <1>4 DEF SteadySets, OneRollout
  <2>2. n \in Existing(sets) /\ n \in Existing(view) /\ n \in Sets
    BY <1>6, SubsetTypes
  <2>3. view[n].image = sets[n].image /\ (view[n].roll => sets[n].roll)
    BY <2>2 DEF SteadySets, CopiesAgree
  <2>4. CASE Alone(n)
    BY <1>4, <1>6, <2>2, <2>3, <2>4 DEF Alone, Wanted, isNewSetRequired
  <2>5. CASE Arriving(n)
    <3>3. l = n
      BY <2>2, <2>5, ArrivingIsNewest
    <3> QED
      BY <1>6, <2>3, <2>5, <3>3 DEF Arriving, Wanted, isNewSetRequired
  <2> QED
    BY <2>1, <2>4, <2>5
<1>7. ASSUME NEW l \in MaxRevisionOf(view), isNewSetRequired(dep.spec, view[l]),
             work' = [w(l) EXCEPT !.pc = "create"]
      PROVE  SteadyWork'
  <2>1. work'.pc = "create" /\ work'.target = dep.spec /\ work'.doomed = {} /\ work'.latest = l
    BY <1>4, <1>7 DEF Work
  <2>2. Wanted(sets[l])' <=> Wanted(sets[l])
    BY <1>1 DEF Wanted
  <2> QED
    BY <1>1, <1>2, <1>6, <1>7, <2>1, <2>2 DEF SteadyWork, ServiceSpared, CreationDue, UpdateInPlace
<1>8. ASSUME NEW l \in MaxRevisionOf(view), ~isNewSetRequired(dep.spec, view[l]),
             work' = [w(l) EXCEPT !.pc = "sync"]
      PROVE  SteadyWork'
  <2>1. work'.pc = "sync" /\ work'.target = dep.spec /\ work'.doomed = {} /\ work'.latest = l
    BY <1>4, <1>8 DEF Work
  <2> QED
    BY <1>1, <1>2, <1>8, <2>1
       DEF SteadyWork, ServiceSpared, CreationDue, UpdateInPlace, isNewSetRequired
<1>9. ASSUME NEW l \in MaxRevisionOf(view), ~isNewSetRequired(dep.spec, view[l]),
             dep.spec.strategy # RollingUpdate,
             work' = deleteFirewallSets(w(l), view, Existing(view) \ {l})
      PROVE  SteadyWork'
  <2>1. Existing(view) \ {l} \in SUBSET Sets
    BY SubsetTypes
  <2> HIDE DEF w
  <2>2. /\ work'.pc \in {"idle", "status", "delete", "sync", "swap"}
        /\ work'.pc \in {"sync", "swap"} => work'.target = dep.spec /\ work'.latest = l
    BY <1>4, <1>9, <2>1, DeletionResult
  <2> QED
    BY <1>1, <1>2, <1>9, <2>2
       DEF SteadyWork, ServiceSpared, CreationDue, UpdateInPlace, isNewSetRequired
<1>10. \/ Existing(view) = {} /\ work' = [start EXCEPT !.pc = "create"]
       \/ \E l \in MaxRevisionOf(view) :
            \/ isNewSetRequired(dep.spec, view[l]) /\ work' = [w(l) EXCEPT !.pc = "create"]
            \/ ~isNewSetRequired(dep.spec, view[l]) /\ work' = [w(l) EXCEPT !.pc = "sync"]
            \/ /\ ~isNewSetRequired(dep.spec, view[l]) /\ dep.spec.strategy # RollingUpdate
               /\ work' = deleteFirewallSets(w(l), view, Existing(view) \ {l})
  BY DEF Begin
<1> QED
  BY <1>2, <1>5, <1>7, <1>8, <1>9, <1>10

\* With the list complete and the backoff over, a new set is the first one or starts
\* the only rollout.
LEMMA CreateSteady ==
  ASSUME RevisionInv, SteadySets, SteadyWork, NEW n \in Sets, createFirewallSet(n)
  PROVE  SteadySets' /\ SteadyWork'
<1>1. TypeOK /\ LatestIsNewest /\ work \in Work
  BY DEF RevisionInv, TypeOK
<1>2. /\ view' = view /\ dep' = dep /\ ~backoff /\ work.pc = "create"
      /\ sets' = [sets EXCEPT ![n] = NewSet] /\ n \in Fresh
      /\ n \notin Existing(sets) /\ n \notin Existing(view)
  BY DEF createFirewallSet, Fresh
<1>3. Existing(sets) \subseteq Existing(view)
  BY <1>2 DEF RevisionInv, ViewIsCurrent
<1>4. /\ work.target.image = dep.spec.image /\ work.target.strategy = dep.spec.strategy
      /\ Existing(view) = Existing(sets) /\ work.target.replicas > 0
      /\ work.latest # None => Existing(sets) = {work.latest}
  BY <1>2, <1>3 DEF SteadyWork, CreationDue
<1>5. /\ Existing(sets') = Existing(sets) \cup {n} /\ Live(sets') = Live(sets) \cup {n}
      /\ sets'[n] = NewSet /\ \A s \in Existing(sets) : sets'[s] = sets[s]
  BY <1>1, <1>2, NewSetType DEF Existing, Live, TypeOK
<1>6. work.latest = None <=> Existing(view) = {}
  BY <1>1, <1>2, NewSetIsNewest
<1>7. /\ NewSet.ready = 0 /\ NewSet.roll = FALSE /\ NewSet.image = work.target.image
      /\ NewSet.dist = setOverrides(work.target, work.latest).distance
      /\ NewSet.replicas = setOverrides(work.target, work.latest).replicas
  BY DEF NewSet
<1>8. CopiesAgree'
  BY <1>2, <1>5 DEF SteadySets, CopiesAgree
<1>9. FirewallsAsked'
  <2>1. sets'[n].ready = 0
    BY <1>5, <1>7
  <2>2. \A s \in Existing(sets) : sets'[s].ready > 0 => sets'[s].replicas > 0
    BY <1>5 DEF SteadySets, FirewallsAsked
  <2>3. \A s \in Existing(sets') : sets'[s].ready > 0 => sets'[s].replicas > 0
    BY <1>5, <2>1, <2>2
  <2> QED
    BY <1>2, <2>3 DEF SteadySets, FirewallsAsked
<1>10. CASE work.latest = None
  <2>1. Alone(n)'
    BY <1>2, <1>4, <1>5, <1>6, <1>10 DEF Alone
  <2>2. OneRollout'
    BY <1>5, <2>1 DEF OneRollout
  <2>3. work' = Idle
    BY <1>10 DEF createFirewallSet
  <2>4. work'.pc = "idle" /\ work'.doomed = {}
    BY <2>3 DEF Idle
  <2> QED
    BY <1>2, <1>8, <1>9, <2>2, <2>4, WorkEndsSteady DEF SteadySets
<1>11. CASE work.latest # None
  <2> DEFINE o == work.latest
  <2>1. o \in Sets \ {n} /\ Existing(sets) = {o} /\ Existing(view) = {o}
    BY <1>1, <1>2, <1>4, <1>11 DEF Work
  <2>2. Wanted(sets[n])'
    BY <1>2, <1>4, <1>5, <1>7 DEF Wanted
  <2>3. dep.spec.strategy = RollingUpdate \/ dep.spec.strategy = Recreate
    BY <1>1 DEF TypeOK, DeploymentObject, DeploymentSpec
  <2>4. ~Preferable(sets[n])'
    <3>1. CASE dep.spec.strategy = RollingUpdate
      BY <1>2, <1>4, <1>5, <1>7, <1>11, <3>1 DEF Preferable, setOverrides
    <3>2. CASE dep.spec.strategy = Recreate
      BY <1>2, <1>4, <1>5, <1>7, <1>11, <3>2 DEF Preferable, setOverrides
    <3> QED
      BY <2>3, <3>1, <3>2
  <2>5. dep.spec.strategy = RollingUpdate => sets'[n].replicas > 0
    BY <1>4, <1>5, <1>7 DEF setOverrides
  <2>6. view[o].rev < sets'[n].rev
    BY <1>1, <1>2, <1>5, <2>1, NewSetIsNewest
  <2>7. Arriving(n)'
    BY <1>2, <1>5, <2>1, <2>2, <2>4, <2>5, <2>6 DEF Arriving
  <2>8. OneRollout'
    BY <1>5, <2>7 DEF OneRollout
  <2>9. SteadySets'
    BY <1>2, <1>8, <1>9, <2>8 DEF SteadySets
  <2>10. CASE /\ work.target.strategy = Recreate
              /\ work' = deleteFirewallSets(work, view, Existing(view))
    <3>1. Existing(view) \in SUBSET Sets /\ Existing(view) # {}
      BY <2>1, SubsetTypes
    <3>2. work'.pc \in {"idle", "status", "delete"}
      BY <1>1, <2>10, <3>1, DeletionResult
    <3> QED
      BY <1>2, <1>4, <2>9, <2>10, <3>2 DEF SteadyWork, ServiceSpared, CreationDue, UpdateInPlace
  <2>11. ASSUME work.target.strategy = RollingUpdate,
                NEW ss \in IntermediateSets([view EXCEPT ![n] = NewSet]),
                work' = deleteFirewallSets(work, view, ss)
         PROVE  SteadyWork'
    <3>1. PICK p \in Existing(view) : ss = Existing(view) \ {p}
      BY <1>1, <1>2, <1>6, <1>11, <2>11, NewSetIsKept
    <3>2. ss = {}
      BY <2>1, <3>1
    <3>3. ss \cap Live(view) = {}
      BY <3>2
    <3>4. /\ work'.pc = "delete" => work'.doomed = ss \cap Live(view)
          /\ work'.pc = "delete" <=> work'.doomed # {}
          /\ work'.pc \in {"idle", "status", "delete", "swap"}
          /\ work'.pc = "swap" => work'.target = work.target
      <4>1. ss \in SUBSET Sets
        BY <3>2
      <4> QED
        BY <1>1, <2>11, <4>1, DeletionResult
    <3>5. work'.pc # "delete" /\ work'.doomed = {}
      BY <3>3, <3>4
    <3> QED
      BY <1>2, <1>4, <3>4, <3>5 DEF SteadyWork, ServiceSpared, CreationDue, UpdateInPlace
  <2> QED
    BY <1>11, <2>9, <2>10, <2>11 DEF createFirewallSet
<1> QED
  BY <1>10, <1>11

LEMMA DeleteSetSteady ==
  ASSUME RevisionInv, StagedWork, SteadySets, SteadyWork, NEW d \in Sets, DeleteSet(d)
  PROVE  SteadySets' /\ SteadyWork'
<1>1. TypeOK /\ work \in Work /\ work.pc = "delete" /\ d \in work.doomed /\ work.waiting
      /\ view' = view /\ dep' = dep
  BY DEF RevisionInv, TypeOK, DeleteSet, StagedWork
<1>2. CASE sets' = sets /\ work' = Return(work)
  BY <1>1, <1>2, ReturnType, WorkEndsSteady, SetsStaySteady
<1>3. CASE /\ sets[d].phase # "absent"
           /\ sets' = [sets EXCEPT ![d].phase = "terminating"]
           /\ work' = Proceed([work EXCEPT !.doomed = @ \ {d}])
  <2>1. /\ Existing(sets') = Existing(sets) /\ Live(sets') = Live(sets) \ {d}
        /\ \A s \in Sets : /\ sets'[s].rev = sets[s].rev /\ sets'[s].image = sets[s].image
                           /\ sets'[s].roll = sets[s].roll /\ sets'[s].ready = sets[s].ready
                           /\ sets'[s].replicas = sets[s].replicas /\ sets'[s].dist = sets[s].dist
    <3> DEFINE gone == [sets[d] EXCEPT !.phase = "terminating"]
    <3>1. sets[d] \in SetObject
      BY <1>1 DEF TypeOK
    <3>2. /\ gone.phase = "terminating" /\ gone.rev = sets[d].rev /\ gone.image = sets[d].image
          /\ gone.roll = sets[d].roll /\ gone.ready = sets[d].ready
          /\ gone.replicas = sets[d].replicas /\ gone.dist = sets[d].dist
      BY <3>1 DEF SetObject
    <3> HIDE DEF gone
    <3>3. sets'[d] = gone /\ \A s \in Sets \ {d} : sets'[s] = sets[s]
      BY <1>1, <1>3 DEF TypeOK, gone
    <3>4. Existing(sets') = Existing(sets) /\ Live(sets') = Live(sets) \ {d}
      BY <1>3, <3>2, <3>3 DEF Existing, Live
    <3> QED
      BY <3>2, <3>3, <3>4
  <2>2. CopiesAgree' /\ FirewallsAsked'
    BY <1>1, <2>1, SubsetTypes DEF SteadySets, CopiesAgree, FirewallsAsked
  <2>3. ASSUME NEW n \in Live(sets), Alone(n) \/ Arriving(n)
        PROVE  n \in Live(sets') /\ (Alone(n)' \/ Arriving(n)')
    <3>1. n # d /\ n \in Sets
      BY <1>1, <2>3, NewestStays, SubsetTypes
    <3>2. Alone(n)' <=> Alone(n)
      BY <1>1, <2>1 DEF Alone
    <3>3. Arriving(n) => Arriving(n)'
      BY <1>1, <2>1, <3>1 DEF Arriving, Wanted, Preferable
    <3> QED
      BY <2>1, <2>3, <3>1, <3>2, <3>3
  <2>4. SteadySets'
    BY <1>1, <2>1, <2>2, <2>3 DEF SteadySets, OneRollout
  <2> DEFINE w == [work EXCEPT !.doomed = @ \ {d}]
  <2>5. w \in Work /\ w.waiting /\ w.doomed = work.doomed \ {d}
    BY <1>1 DEF Work
  <2>6. work' = Proceed(w)
    BY <1>3
  <2> HIDE DEF w
  <2>7. /\ work'.pc \in {"idle", "status", "delete"}
        /\ work'.doomed \subseteq work.doomed \ {d}
    BY <2>5, <2>6, WaitingProceeds, ProceedType
  <2>8. ServiceSpared'
    <3>1. SUFFICES ASSUME dep.spec.strategy = RollingUpdate, work'.doomed # {}
                   PROVE  \E n \in Live(sets') \ work'.doomed : sets'[n].ready > 0
      BY <1>1 DEF ServiceSpared
    <3>2. PICK n \in Live(sets) \ work.doomed : sets[n].ready > 0
      BY <1>1, <3>1 DEF SteadyWork, ServiceSpared
    <3>3. n \in Live(sets') \ work'.doomed /\ n \in Sets
      BY <1>1, <2>1, <2>7, <3>2, SubsetTypes
    <3> QED
      BY <2>1, <3>2, <3>3
  <2> QED
    BY <2>4, <2>7, <2>8 DEF SteadyWork, CreationDue, UpdateInPlace
<1> QED
  BY <1>2, <1>3 DEF DeleteSet

\* With one old and one new set listed there is nothing in between.
LEMMA NothingIntermediate ==
  ASSUME RevisionInv, NEW n \in Live(sets), Alone(n) \/ Arriving(n), Existing(view) # {},
         NEW ss \in IntermediateSets(view)
  PROVE  ss = {}
<1>1. PICK p \in MinRevisionOf(view), m \in MaxRevisionOf(view) : ss = Existing(view) \ {p, m}
  BY DEF IntermediateSets
<1>2. p \in Existing(view) /\ m \in Existing(view)
  BY DEF MinRevisionOf, MaxRevisionOf
<1>3. CASE Alone(n)
  BY <1>1, <1>2, <1>3 DEF Alone
<1>4. CASE Arriving(n)
  <2>1. PICK o \in Sets \ {n} :
          /\ Existing(view) \subseteq {o, n} /\ o \in Existing(view)
          /\ view[o].rev < sets[n].rev
    BY <1>4 DEF Arriving
  <2>2. CASE n \notin Existing(view)
    BY <1>1, <1>2, <2>1, <2>2
  <2>3. CASE n \in Existing(view)
    <3>1. m = n
      BY <1>4, <2>3, ArrivingIsNewest
    <3>2. n \in Sets /\ n \in Existing(sets)
      BY SubsetTypes
    <3>3. sets[n].rev = view[n].rev /\ view[n].rev \in Nat /\ view[o].rev \in Nat
      BY <2>3, <3>2 DEF RevisionInv, ViewIsCurrent, TypeOK, SetObject
    <3>4. view[p].rev <= view[o].rev
      BY <2>1 DEF MinRevisionOf
    <3>5. p = o
      BY <1>2, <2>1, <3>3, <3>4
    <3> QED
      BY <1>1, <2>1, <3>1, <3>5
  <2> QED
    BY <2>2, <2>3
<1> QED
  BY <1>3, <1>4

\* A reconcile for another strategy, or for the only listed set, is not in the middle of
\* a rollout.
LEMMA OutdatedIsAlone ==
  ASSUME SteadyWork, NEW n \in Live(sets), Arriving(n), work.pc \in {"sync", "swap"}
  PROVE  work.target.strategy = dep.spec.strategy /\ Existing(view) # {n}
<1>1. PICK o \in Sets \ {n} : o \in Existing(view)
  BY DEF Arriving
<1>2. ASSUME NEW m \in Live(sets), Alone(m) PROVE FALSE
  BY <1>1, <1>2, SubsetTypes DEF Alone
<1> QED
  BY <1>1, <1>2 DEF SteadyWork, UpdateInPlace

LEMMA SyncSteadySets ==
  ASSUME RevisionInv, StagedWork, SteadySets, SteadyWork, syncFirewallSet
  PROVE  SteadySets'
<1> DEFINE l == work.latest
<1>1. /\ l \in Sets /\ l \in Existing(view) /\ view' = view /\ dep' = dep /\ work.pc = "sync"
      /\ Existing(sets') = Existing(sets) /\ Live(sets') = Live(sets)
      /\ \A s \in Sets \ {l} : sets'[s] = sets[s]
  BY SyncedSet DEF syncFirewallSet
<1>2. CASE sets' = sets
  BY <1>1, <1>2, SetsStaySteady
<1>3. CASE /\ sets'[l] = [sets[l] EXCEPT !.replicas = work.target.replicas,
                                         !.image = work.target.image,
                                         !.rules = work.target.rules]
           /\ l \in Existing(sets)
  <2>1. /\ sets'[l].replicas = work.target.replicas /\ sets'[l].image = sets[l].image
        /\ sets'[l].roll = sets[l].roll /\ sets'[l].ready = sets[l].ready
        /\ sets'[l].dist = sets[l].dist /\ sets'[l].rev = sets[l].rev
    <3>1. work.target.image = sets[l].image
      BY <1>1, <1>3 DEF SteadyWork, UpdateInPlace, SteadySets, CopiesAgree
    <3>2. sets[l] \in SetObject
      BY <1>1 DEF RevisionInv, TypeOK
    <3> QED
      BY <1>3, <3>1, <3>2 DEF SetObject
  <2>2. work.target.replicas > 0
    BY <1>1 DEF SteadyWork
  <2>3. CopiesAgree'
    BY <1>1, <2>1, SubsetTypes DEF SteadySets, CopiesAgree
  <2>4. FirewallsAsked'
    BY <1>1, <2>1, <2>2, SubsetTypes DEF SteadySets, FirewallsAsked
  <2>5. ASSUME NEW n \in Live(sets), Alone(n) PROVE Alone(n)'
    BY <1>1, <2>5 DEF Alone
  <2>6. ASSUME NEW n \in Live(sets), Arriving(n), l # n PROVE Arriving(n)'
    BY <1>1, <2>6, SubsetTypes DEF Arriving, Wanted, Preferable
  <2>7. ASSUME NEW n \in Live(sets), Arriving(n), l = n PROVE Arriving(n)'
    <3>1. dep.spec.strategy = RollingUpdate
      BY <1>1, <2>7, OutdatedIsAlone
         DEF StagedWork, RevisionInv, TypeOK, DeploymentObject, DeploymentSpec
    <3>2. Wanted(sets[n])' /\ ~Preferable(sets[n])'
      BY <1>1, <2>1, <2>7, <3>1 DEF Arriving, Wanted, Preferable
    <3> QED
      BY <1>1, <2>1, <2>2, <2>7, <3>2 DEF Arriving
  <2>8. OneRollout'
    BY <1>1, <2>5, <2>6, <2>7 DEF OneRollout, SteadySets
  <2> QED
    BY <1>1, <2>3, <2>4, <2>8 DEF SteadySets
<1> QED
  BY <1>2, <1>3, SyncedSet

\* What syncing decides to delete is replaced by a set that is ready.
LEMMA SyncSteadyWork ==
  ASSUME RevisionInv, StagedWork, SteadySets, SteadyWork, syncFirewallSet
  PROVE  SteadyWork'
<1> DEFINE l == work.latest
<1>1. TypeOK /\ work \in Work
  BY DEF RevisionInv, TypeOK
<1>2. /\ l \in Sets /\ l \in Existing(view) /\ view' = view /\ dep' = dep /\ work.pc = "sync"
      /\ Existing(sets') = Existing(sets) /\ Live(sets') = Live(sets)
      /\ l \in MaxRevisionOf(view)
  BY SyncedSet DEF syncFirewallSet, RevisionInv, LatestIsNewest
<1>3. \A s \in Sets : sets'[s].ready = sets[s].ready
  <2>1. sets[l] \in SetObject
    BY <1>1, <1>2 DEF TypeOK
  <2>2. sets'[l].ready = sets[l].ready
    BY <2>1, SyncedSet DEF SetObject
  <2> QED
    BY <2>2, SyncedSet
<1>4. ASSUME NEW n \in Live(sets), Alone(n) PROVE n \in Live(sets') /\ Alone(n)'
  BY <1>2, <1>4 DEF Alone
<1>5. work.target.strategy # dep.spec.strategy => \E n \in Live(sets') : Alone(n)'
  BY <1>2, <1>4 DEF SteadyWork, UpdateInPlace
<1>6. PICK n \in Live(sets) : Alone(n) \/ Arriving(n)
  BY <1>2 DEF SteadySets, OneRollout
<1>7. n \in Sets
  BY SubsetTypes
<1>8. CASE work' = Return(work)
  BY <1>1, <1>8, ReturnType, WorkEndsSteady
<1>9. CASE work' = [work EXCEPT !.pc = "swap"]
  <2>1. work'.pc = "swap" /\ work'.target = work.target /\ work'.doomed = work.doomed
    BY <1>1, <1>9 DEF Work
  <2>2. ServiceSpared'
    BY <1>2, <1>3, <2>1, SubsetTypes DEF ServiceSpared, SteadyWork
  <2> QED
    BY <1>2, <1>5, <2>1, <2>2 DEF SteadyWork, CreationDue, UpdateInPlace
<1>10. ASSUME NEW ss \in SUBSET Sets, work' = deleteFirewallSets(work, view, ss),
              work.target.strategy = RollingUpdate,
              AllReady(view[l]) => ss = Existing(view) \ {l},
              ~AllReady(view[l]) => ss \in IntermediateSets(view)
       PROVE  SteadyWork'
  <2>1. /\ work'.pc \in {"idle", "status", "delete", "swap"}
        /\ work'.pc = "delete" => work'.doomed = ss \cap Live(view)
        /\ work'.pc = "delete" <=> work'.doomed # {}
        /\ work'.pc = "swap" => work'.target = work.target
    BY <1>1, <1>10, DeletionResult
  <2>2. ServiceSpared'
    <3> SUFFICES ASSUME dep.spec.strategy = RollingUpdate, work'.doomed # {}
                 PROVE  \E m \in Live(sets') \ work'.doomed : sets'[m].ready > 0
      BY <1>2 DEF ServiceSpared
    <3>1. work'.doomed = ss \cap Live(view) /\ ss # {}
      BY <2>1
    <3>2. AllReady(view[l]) /\ ss = Existing(view) \ {l}
      BY <1>2, <1>6, <1>10, <3>1, NothingIntermediate
    <3>3. Arriving(n)
      BY <1>2, <1>6, <3>1, <3>2 DEF Alone
    <3>4. n \in Existing(view)
      BY <1>2, <3>1, <3>2, <3>3 DEF Arriving
    <3>5. l = n
      BY <1>2, <3>3, <3>4, ArrivingIsNewest
    <3>6. view[n].ready > 0
      BY <3>2, <3>3, <3>4, <3>5 DEF Arriving, AllReady
    <3>7. sets'[n].ready > 0
      BY <1>3, <1>7, <3>4, <3>6, SubsetTypes DEF SteadySets, CopiesAgree
    <3>8. n \in Live(sets') \ work'.doomed
      BY <1>2, <3>1, <3>2, <3>5
    <3> QED
      BY <3>7, <3>8
  <2> QED
    BY <1>5, <2>1, <2>2, <1>2 DEF SteadyWork, CreationDue, UpdateInPlace
<1> QED
  BY <1>8, <1>9, <1>10, SyncCases

LEMMA SwapSteady ==
  ASSUME RevisionInv, StagedWork, SteadySets, SteadyWork, SwapDistance
  PROVE  SteadySets' /\ SteadyWork'
<1> DEFINE l == work.latest
<1>1. /\ l \in Sets /\ l \in Existing(view) /\ view' = view /\ dep' = dep /\ work.pc = "swap"
      /\ Existing(sets') = Existing(sets) /\ Live(sets') = Live(sets)
      /\ \A s \in Sets \ {l} : sets'[s] = sets[s]
  BY SwappedSet DEF SwapDistance
<1>2. /\ sets'[l].image = sets[l].image /\ sets'[l].roll = sets[l].roll
      /\ sets'[l].ready = sets[l].ready /\ sets'[l].rev = sets[l].rev
      /\ sets'[l].replicas = sets[l].replicas
  <2>1. sets[l] \in SetObject
    BY <1>1 DEF RevisionInv, TypeOK
  <2> QED
    BY <2>1, SwappedSet DEF SetObject
<1>3. CopiesAgree' /\ FirewallsAsked'
  BY <1>1, <1>2, SubsetTypes DEF SteadySets, CopiesAgree, FirewallsAsked
<1>4. ASSUME NEW n \in Live(sets), Alone(n) PROVE Alone(n)'
  BY <1>1, <1>4 DEF Alone
<1>5. ASSUME NEW n \in Live(sets), Arriving(n), l # n \/ sets' = sets PROVE Arriving(n)'
  BY <1>1, <1>5, SubsetTypes DEF Arriving, Wanted, Preferable
<1>6. ASSUME NEW n \in Live(sets), Arriving(n), l = n, AllReady(view[l]) PROVE Arriving(n)'
  <2>1. dep.spec.strategy # RollingUpdate
    BY <1>1, <1>6, OutdatedIsAlone DEF StagedWork
  <2>2. Wanted(sets[n])' /\ ~Preferable(sets[n])'
    BY <1>1, <1>2, <1>6, <2>1 DEF Arriving, Wanted, Preferable
  <2> QED
    BY <1>1, <1>2, <1>6, <2>1, <2>2 DEF Arriving
<1>7. OneRollout'
  BY <1>1, <1>4, <1>5, <1>6, SwappedSet DEF OneRollout, SteadySets
<1>8. work'.pc = "status" /\ work'.doomed = work.doomed
  BY DEF RevisionInv, TypeOK, SwapDistance, Work
<1>9. ServiceSpared'
  BY <1>1, <1>2, <1>8, SubsetTypes DEF ServiceSpared, SteadyWork
<1> QED
  BY <1>1, <1>3, <1>7, <1>8, <1>9 DEF SteadySets, SteadyWork, CreationDue, UpdateInPlace

\* Reports of a set that was ready and keeps its replicas leave some of it ready.
LEMMA ReportsSteady ==
  ASSUME RevisionInv, SteadySets, SteadyWork, NEW s \in Sets, SetReports(s)
  PROVE  SteadySets' /\ SteadyWork'
<1>1. TypeOK /\ view' = view /\ dep' = dep /\ work' = work /\ s \in Live(sets) /\ s \in Existing(sets)
  BY DEF RevisionInv, SetReports, Live, Existing
<1>2. PICK n \in 0..FirewallMaxReplicas :
        /\ \/ sets[s].ready < n /\ n <= sets[s].replicas
           \/ sets[s].replicas <= n /\ n < sets[s].ready
        /\ sets' = [sets EXCEPT ![s].ready = n]
  BY DEF SetReports
<1>3. sets[s] \in SetObject /\ sets[s].ready \in Nat /\ sets[s].replicas \in Nat
  BY <1>1 DEF TypeOK, SetObject
<1>4. /\ sets'[s].phase = sets[s].phase /\ sets'[s].rev = sets[s].rev
      /\ sets'[s].image = sets[s].image /\ sets'[s].roll = sets[s].roll
      /\ sets'[s].replicas = sets[s].replicas /\ sets'[s].dist = sets[s].dist
      /\ \A t \in Sets \ {s} : sets'[t] = sets[t]
  BY <1>1, <1>2, <1>3 DEF TypeOK, SetObject
<1>5. Existing(sets') = Existing(sets) /\ Live(sets') = Live(sets)
  BY <1>4 DEF Existing, Live
<1>6. sets'[s].ready = n
  BY <1>1, <1>2, <1>3 DEF TypeOK, SetObject
<1>7. sets[s].ready > 0 => sets[s].replicas > 0
  BY <1>1 DEF SteadySets, FirewallsAsked
<1>8. /\ sets[s].ready > 0 => sets'[s].ready > 0
      /\ sets'[s].ready > 0 => sets'[s].replicas > 0
  BY <1>2, <1>3, <1>4, <1>6, <1>7
<1>9. CopiesAgree' /\ FirewallsAsked'
  BY <1>1, <1>4, <1>5, <1>8, SubsetTypes DEF SteadySets, CopiesAgree, FirewallsAsked
<1>10. ASSUME NEW m \in Live(sets)
       PROVE  /\ Alone(m)' <=> Alone(m)
              /\ Arriving(m) => Arriving(m)'
              /\ Wanted(sets[m])' <=> Wanted(sets[m])
  BY <1>1, <1>4, <1>5, SubsetTypes DEF Alone, Arriving, Wanted, Preferable
<1>11. OneRollout'
  BY <1>1, <1>5, <1>10 DEF SteadySets, OneRollout
<1>12. ServiceSpared'
  BY <1>1, <1>4, <1>5, <1>8, SubsetTypes DEF SteadyWork, ServiceSpared
<1>13. CreationDue'
  <2>1. \A t \in Sets : sets'[t].image = sets[t].image /\ sets'[t].roll = sets[t].roll
    BY <1>4
  <2>2. work.latest # None => work.latest \in Sets
    BY <1>1 DEF TypeOK, Work
  <2> QED
    BY <1>1, <1>5, <2>1, <2>2 DEF SteadyWork, CreationDue, Wanted
<1>14. UpdateInPlace'
  BY <1>1, <1>5, <1>10 DEF SteadyWork, UpdateInPlace
<1> QED
  BY <1>1, <1>9, <1>11, <1>12, <1>13, <1>14 DEF SteadySets, SteadyWork

\* The set that goes away is the old one of a rollout.
LEMMA FinalizedSteady ==
  ASSUME RevisionInv, SteadySets, SteadyWork, NEW s \in Sets, SetFinalized(s)
  PROVE  SteadySets' /\ SteadyWork'
<1>1. TypeOK /\ view' = view /\ dep' = dep /\ work' = work /\ sets[s].phase = "terminating"
  BY DEF RevisionInv, SetFinalized
<1>2. /\ Existing(sets') = Existing(sets) \ {s} /\ Live(sets') = Live(sets)
      /\ s \in Existing(sets) /\ s \notin Live(sets)
      /\ \A t \in Sets \ {s} : sets'[t] = sets[t]
  BY <1>1, AbsentType DEF SetFinalized, TypeOK, Existing, Live
<1>3. PICK n \in Live(sets) : Alone(n) \/ Arriving(n)
  BY <1>2 DEF SteadySets, OneRollout
<1>4. n \in Existing(sets) /\ n # s /\ n \in Sets
  BY <1>2, SubsetTypes
<1>5. Arriving(n) /\ \A m \in Live(sets) : ~Alone(m)
  BY <1>2, <1>3, <1>4 DEF Alone
<1>6. CopiesAgree' /\ FirewallsAsked'
  BY <1>1, <1>2, SubsetTypes DEF SteadySets, CopiesAgree, FirewallsAsked
<1>7. Arriving(n)'
  BY <1>1, <1>2, <1>4, <1>5 DEF Arriving, Wanted, Preferable
<1>8. OneRollout'
  BY <1>2, <1>7 DEF OneRollout
<1>9. ServiceSpared'
  <2>1. \A t \in Live(sets) : sets'[t] = sets[t]
    BY <1>2, SubsetTypes
  <2> QED
    BY <1>1, <1>2, <2>1 DEF SteadyWork, ServiceSpared
<1>10. CreationDue'
  <2>1. ASSUME work.pc = "create", Existing(sets') \subseteq Existing(view) PROVE FALSE
    <3>1. s \in Existing(view)
      BY <1>2, <1>4, <1>5 DEF Arriving
    <3>2. Existing(sets) \subseteq Existing(view)
      BY <1>2, <2>1, <3>1
    <3>3. work.latest # None
      BY <2>1, <3>1 DEF RevisionInv, LatestIsNewest
    <3>4. Existing(sets) = {work.latest}
      BY <2>1, <3>2, <3>3 DEF SteadyWork, CreationDue
    <3> QED
      BY <1>2, <1>4, <3>4
  <2> QED
    BY <1>1, <2>1 DEF CreationDue
<1>11. UpdateInPlace'
  BY <1>1, <1>5 DEF SteadyWork, UpdateInPlace
<1> QED
  BY <1>1, <1>6, <1>8, <1>9, <1>10, <1>11 DEF SteadySets, SteadyWork

\* A change that a user makes after the rollout is over finds one set, which stays.
LEMMA OutsideSteady ==
  ASSUME 0 \notin ReplicaCounts, RevisionInv, SteadySets, SteadyWork, Outside, ~disrupted'
  PROVE  SteadySets' /\ SteadyWork'
<1>1. TypeOK /\ view' = view /\ work' = work
      /\ Existing(sets') = Existing(sets) /\ Live(sets') = Live(sets)
  BY OutsideIsQuiet DEF RevisionInv
<1>2. Converged /\ ~DeleteDeployment /\ \A s \in Sets : ~Degrade(s)
  BY DEF Outside, ChangeImage, ChangeRules, Scale, ChangeStrategy, DeleteDeployment,
         RollSet, Degrade, Disturb
<1>3. PICK s \in Sets :
        /\ Existing(sets) = {s} /\ sets[s].phase = "live"
        /\ ~isNewSetRequired(dep.spec, sets[s])
        /\ sets[s].replicas = dep.spec.replicas
        /\ AllReady(sets[s]) /\ sets[s].dist = FirewallShortestDistance
  BY <1>2 DEF Converged
<1>4. dep.spec.replicas > 0 /\ sets[s].ready > 0 /\ Wanted(sets[s]) /\ Preferable(sets[s])
  BY <1>3 DEF SteadySets, FirewallsAsked, AllReady, Wanted, Preferable, isNewSetRequired
<1>5. Live(sets) = {s}
  BY <1>3, SubsetTypes DEF Live
<1>6. Alone(s)
  BY <1>3, <1>4, <1>5 DEF SteadySets, OneRollout, Arriving
<1>7. s \notin work.doomed
  BY <1>5, <1>6, NewestStays
<1>8. ~(work.pc = "create" /\ Existing(sets) \subseteq Existing(view))
  <2> SUFFICES ASSUME work.pc = "create", Existing(sets) \subseteq Existing(view) PROVE FALSE
    OBVIOUS
  <2>1. work.latest # None
    BY <1>3 DEF RevisionInv, LatestIsNewest
  <2>2. work.latest = s /\ ~Wanted(sets[work.latest])
    BY <1>3, <2>1 DEF SteadyWork, CreationDue
  <2> QED
    BY <1>4, <2>2
<1>9. Alone(s)' /\ s \in Live(sets')
  BY <1>1, <1>5, <1>6 DEF Alone
<1>10. OneRollout' /\ CreationDue' /\ UpdateInPlace'
  BY <1>1, <1>8, <1>9 DEF OneRollout, CreationDue, UpdateInPlace, SteadyWork
<1>11. sets'[s].ready = sets[s].ready /\ sets'[s].replicas = sets[s].replicas
       /\ sets'[s].image = sets[s].image /\ (sets[s].roll => sets'[s].roll)
  <2>1. CASE sets' = sets
    BY <2>1
  <2>2. ASSUME NEW t \in Sets, RollSet(t)
        PROVE  sets'[s].ready = sets[s].ready /\ sets'[s].replicas = sets[s].replicas
               /\ sets'[s].image = sets[s].image /\ (sets[s].roll => sets'[s].roll)
    BY <1>1, <2>2 DEF RollSet, TypeOK, SetObject
  <2> QED
    BY <1>2, <2>1, <2>2
       DEF Outside, ChangeImage, ChangeRules, Scale, ChangeStrategy, UpdateSpec
<1>12. ServiceSpared'
  BY <1>1, <1>4, <1>7, <1>9, <1>11 DEF ServiceSpared
<1>13. dep'.phase = "present" /\ dep'.spec.replicas > 0
  <2>1. dep.phase = "present" /\ dep.spec.replicas > 0
    BY <1>4 DEF SteadySets
  <2>2. CASE dep' = dep
    BY <2>1, <2>2
  <2>3. CASE ChangeImage \/ ChangeRules \/ ChangeStrategy
    BY <1>1, <2>1, <2>3 DEF ChangeImage, ChangeRules, ChangeStrategy, UpdateSpec, TypeOK,
                            DeploymentObject, DeploymentSpec
  <2>4. CASE Scale
    <3>1. PICK n \in ReplicaCounts : dep' = [dep EXCEPT !.spec = [dep.spec EXCEPT !.replicas = n]]
      BY <2>4 DEF Scale, UpdateSpec
    <3>2. n > 0
      BY ConstantsAssumption
    <3> QED
      BY <1>1, <2>1, <3>1, <3>2 DEF TypeOK, DeploymentObject, DeploymentSpec
  <2> QED
    BY <1>2, <2>2, <2>3, <2>4 DEF Outside, RollSet
<1>14. CopiesAgree' /\ FirewallsAsked'
  BY <1>1, <1>3, <1>4, <1>11, <1>13 DEF SteadySets, CopiesAgree, FirewallsAsked
<1> QED
  BY <1>1, <1>10, <1>12, <1>13, <1>14 DEF SteadySets, SteadyWork

\* The history is never forgotten.
LEMMA DisruptedStays ==
  ASSUME [Next]_vars, ~disrupted' PROVE ~disrupted
<1>1. CASE disrupted' = disrupted
  BY <1>1
<1>2. CASE Outside
  BY <1>2 DEF Outside, ChangeImage, ChangeRules, Scale, ChangeStrategy, DeleteDeployment,
              RollSet, Degrade, Disturb
<1>3. ASSUME NEW s \in Sets,
             \/ createFirewallSet(s) \/ DeleteSet(s) \/ SetReports(s) \/ SetFinalized(s)
             \/ GarbageCollect(s) \/ CreateAnswerLost(s)
      PROVE  disrupted' = disrupted
  BY <1>3 DEF createFirewallSet, DeleteSet, SetReports, SetFinalized, GarbageCollect,
              CreateAnswerLost, Fail, env
<1>4. CASE \/ Begin \/ Delete \/ CreationBackedOff \/ syncFirewallSet \/ SwapDistance
           \/ PublishStatus \/ Refresh \/ BackoffExpires \/ ApiError \/ Restart
           \/ UNCHANGED vars
  BY <1>4 DEF Begin, Delete, CreationBackedOff, syncFirewallSet, SwapDistance, PublishStatus,
              Refresh, BackoffExpires, ApiError, Restart, Fail, env, vars
<1> QED
  BY <1>1, <1>2, <1>3, <1>4 DEF Next, Controller

LEMMA NextSteady ==
  ASSUME "lostAnswer" \notin Faults, 0 \notin ReplicaCounts,
         RevisionInv, StagedWork, SteadyInv, [Next]_vars
  PROVE  SteadyInv'
<1> SUFFICES ASSUME ~disrupted' PROVE SteadySets' /\ SteadyWork'
  BY DEF SteadyInv
<1>1. TypeOK /\ work \in Work
  BY DEF RevisionInv, TypeOK
<1>2. ~disrupted
  BY DisruptedStays
<1>3. SteadySets /\ SteadyWork
  BY <1>2 DEF SteadyInv
<1>4. ~Delete /\ \A s \in Sets : ~GarbageCollect(s) /\ ~CreateAnswerLost(s)
  BY <1>3 DEF SteadySets, Delete, GarbageCollect, CreateAnswerLost, Fail
<1>5. CASE CreationBackedOff
  BY <1>1, <1>3, <1>5, ReturnType, WorkEndsSteady, SetsStaySteady DEF CreationBackedOff
<1>6. CASE PublishStatus
  <2>1. work'.pc = "idle" /\ work'.doomed = {} /\ dep' = dep /\ sets' = sets
        /\ (view' = view \/ view' = sets)
    BY <1>6 DEF PublishStatus, Idle
  <2> QED
    BY <1>3, <2>1, WorkEndsSteady, SetsStaySteady, RefreshSteady
<1>7. CASE Refresh
  <2>1. work'.pc = "idle" /\ work'.doomed = {} /\ dep' = dep /\ sets' = sets /\ view' = sets
    BY <1>7 DEF Refresh, RevisionInv, LatestIsNewest
  <2> QED
    BY <1>3, <2>1, WorkEndsSteady, RefreshSteady
<1>8. CASE Restart
  <2>1. work'.pc = "idle" /\ work'.doomed = {} /\ dep' = dep /\ sets' = sets /\ view' = sets
    BY <1>8 DEF Restart, Fail, Idle
  <2> QED
    BY <1>3, <2>1, WorkEndsSteady, RefreshSteady
<1>9. CASE ApiError
  <2>1. work'.pc \in {"idle", "status"} /\ work'.doomed = {} /\ dep' = dep
        /\ sets' = sets /\ view' = view
    BY <1>1, <1>9, ReturnType DEF ApiError, Fail, Idle
  <2> QED
    BY <1>3, <2>1, WorkEndsSteady, SetsStaySteady
<1>10. CASE BackoffExpires \/ UNCHANGED vars
  <2>1. dep' = dep /\ sets' = sets /\ view' = view /\ work' = work
    BY <1>10 DEF BackoffExpires, vars
  <2>2. SteadySets'
    BY <1>3, <2>1, SetsStaySteady
  <2>3. SteadyWork'
    BY <1>3, <2>1 DEF SteadyWork, ServiceSpared, CreationDue, UpdateInPlace, Alone, Wanted
  <2> QED
    BY <2>2, <2>3
<1> QED
  BY <1>3, <1>4, <1>5, <1>6, <1>7, <1>8, <1>9, <1>10, BeginSteady, CreateSteady,
     DeleteSetSteady, SyncSteadySets, SyncSteadyWork, SwapSteady, ReportsSteady,
     FinalizedSteady, OutsideSteady DEF Next, Controller

\* Only a deletion takes a ready set away, and it leaves one that is ready.
LEMMA StepKeepsService ==
  ASSUME "lostAnswer" \notin Faults, RevisionInv, SteadyInv, [Next]_vars,
         Serving(sets), ~disrupted', dep.spec.strategy = RollingUpdate
  PROVE  Serving(sets')
<1>1. TypeOK /\ SteadySets /\ SteadyWork
  BY DisruptedStays DEF RevisionInv, SteadyInv
<1>2. PICK r \in Live(sets) : sets[r].ready > 0
  BY DEF Serving
<1>3. r \in Sets /\ r \in Existing(sets)
  BY SubsetTypes
<1>4. CASE sets' = sets
  BY <1>4
<1>5. ASSUME r \in Live(sets'), sets'[r].ready > 0 PROVE Serving(sets')
  BY <1>5 DEF Serving
<1>6. ASSUME NEW n \in Sets, createFirewallSet(n) PROVE Serving(sets')
  <2>1. sets'[r] = sets[r]
    BY <1>1, <1>3, <1>6 DEF createFirewallSet, Fresh, TypeOK
  <2> QED
    BY <1>2, <1>5, <2>1 DEF Live
<1>7. ASSUME NEW d \in Sets, DeleteSet(d) PROVE Serving(sets')
  <2>1. d \in work.doomed
    BY <1>7 DEF DeleteSet
  <2>2. PICK n \in Live(sets) \ work.doomed : sets[n].ready > 0
    BY <1>1, <2>1 DEF SteadyWork, ServiceSpared
  <2>3. n \in Sets /\ n # d
    BY <2>1, <2>2, SubsetTypes
  <2>4. sets'[n] = sets[n]
    BY <1>1, <1>7, <2>3 DEF DeleteSet, TypeOK
  <2> QED
    BY <2>2, <2>4 DEF Serving, Live
<1>8. CASE syncFirewallSet
  <2>1. sets[work.latest] \in SetObject
    BY <1>1, <1>8, SyncedSet DEF TypeOK
  <2>2. sets'[r].ready = sets[r].ready /\ Live(sets') = Live(sets)
    BY <1>3, <1>8, <2>1, SyncedSet DEF SetObject
  <2> QED
    BY <1>2, <1>5, <2>2
<1>9. CASE SwapDistance
  <2>1. sets[work.latest] \in SetObject
    BY <1>1, <1>9, SwappedSet DEF TypeOK
  <2>2. sets'[r].ready = sets[r].ready /\ Live(sets') = Live(sets)
    BY <1>3, <1>9, <2>1, SwappedSet DEF SetObject
  <2> QED
    BY <1>2, <1>5, <2>2
<1>10. ASSUME NEW s \in Sets, SetReports(s) PROVE Serving(sets')
  <2>1. PICK n \in 0..FirewallMaxReplicas :
          /\ \/ sets[s].ready < n /\ n <= sets[s].replicas
             \/ sets[s].replicas <= n /\ n < sets[s].ready
          /\ sets' = [sets EXCEPT ![s].ready = n]
    BY <1>10 DEF SetReports
  <2>2. sets[s] \in SetObject /\ sets[s].ready \in Nat /\ sets[s].replicas \in Nat
    BY <1>1 DEF TypeOK, SetObject
  <2>3. sets'[r].phase = sets[r].phase /\ sets'[r].ready = IF r = s THEN n ELSE sets[r].ready
    BY <1>1, <1>3, <2>1, <2>2 DEF TypeOK, SetObject
  <2>4. sets[r].replicas > 0
    BY <1>1, <1>2, <1>3 DEF SteadySets, FirewallsAsked
  <2>5. sets'[r].ready > 0
    BY <1>2, <2>1, <2>2, <2>3, <2>4
  <2>6. r \in Live(sets')
    BY <1>2, <2>3 DEF Live
  <2> QED
    BY <1>5, <2>5, <2>6
<1>11. ASSUME NEW s \in Sets, SetFinalized(s) PROVE Serving(sets')
  <2>1. r # s
    BY <1>11 DEF SetFinalized, Live
  <2>2. sets'[r] = sets[r]
    BY <1>1, <1>3, <1>11, <2>1 DEF SetFinalized, TypeOK
  <2> QED
    BY <1>2, <1>5, <2>2 DEF Live
<1>12. ASSUME NEW s \in Sets, RollSet(s) PROVE Serving(sets')
  <2>1. sets'[r].phase = sets[r].phase /\ sets'[r].ready = sets[r].ready
    BY <1>1, <1>3, <1>12 DEF RollSet, TypeOK, SetObject
  <2> QED
    BY <1>2, <1>5, <2>1 DEF Live
<1>13. ASSUME NEW s \in Sets PROVE ~Degrade(s) /\ ~GarbageCollect(s) /\ ~CreateAnswerLost(s)
  BY <1>1 DEF Degrade, Disturb, GarbageCollect, SteadySets, CreateAnswerLost, Fail
<1> QED
  BY <1>4, <1>6, <1>7, <1>8, <1>9, <1>10, <1>11, <1>12, <1>13
     DEF Next, Controller, Outside, Begin, Delete, CreationBackedOff, PublishStatus, Refresh,
         BackoffExpires, ChangeImage, ChangeRules, Scale, ChangeStrategy, DeleteDeployment,
         UpdateSpec, ApiError, Restart, vars

\* A rolling update that users let finish never takes the last ready set away: none is
\* deleted before another one is ready (rollingUpdateStrategy), whatever fails in between.
THEOREM RollingUpdateKeepsService ==
  ASSUME "lostAnswer" \notin Faults, 0 \notin ReplicaCounts
  PROVE  Spec => ServiceKept
<1> DEFINE A == Serving(sets) /\ ~disrupted' /\ dep.spec.strategy = RollingUpdate
                => Serving(sets')
<1>1. RevisionInv /\ StagedWork /\ SteadyInv /\ [Next]_vars => SteadyInv'
  BY NextSteady
<1>2. RevisionInv /\ SteadyInv /\ [Next]_vars => [A]_vars
  BY StepKeepsService
<1>3. Spec => []SteadyInv
  BY <1>1, InitSteady, RevisionInvariant, StagedWorkInvariant, PTL DEF Spec
<1>4. Spec => [][A]_vars
  BY <1>2, <1>3, RevisionInvariant, PTL DEF Spec
<1> QED
  BY <1>4, PTL DEF ServiceKept
=============================================================================
