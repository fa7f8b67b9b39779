----------------------------- MODULE UpdateProofs -----------------------------
(***************************************************************************)
(* Proofs about the two controllers that share one deployment, for every   *)
(* number of releases, changes and failures and a cache that lags by any   *)
(* number of versions.                                                     *)
(***************************************************************************)
EXTENDS Update, FiniteSetTheorems, TLAPS

-----------------------------------------------------------------------------
(* The log of versions *)

LogOK ==
  /\ log \in Seq(Object) /\ log # <<>>
  /\ \A n \in 2..Len(log) : log[n] # log[n - 1]

CopiesOK == fresh \subseteq Controllers /\ \A c \in fresh : work[c].pc = "got" => work[c].copy = dep

LEMMA LogEnds ==
  ASSUME LogOK
  PROVE  /\ Len(log) \in Nat /\ Len(log) >= 1
         /\ dep \in Object /\ cache \in Object
         /\ ~CacheLags => cache = dep
BY DEF LogOK, dep, cache, CacheLags

LEMMA AppendEffect ==
  ASSUME LogOK, NEW new \in Object, new # dep, log' = Append(log, new)
  PROVE  /\ LogOK' /\ dep' = new
         /\ Len(log') = Len(log) + 1 /\ log'[Len(log')] = new
         /\ \A n \in 1..Len(log) : log'[n] = log[n]
<1>1. Len(log) \in Nat /\ Len(log) >= 1 /\ log \in Seq(Object)
  BY LogEnds DEF LogOK
<1>2. /\ log' \in Seq(Object) /\ Len(log') = Len(log) + 1
      /\ \A n \in 1..Len(log) : log'[n] = log[n]
      /\ log'[Len(log) + 1] = new
  BY <1>1
<1>3. dep' = new
  BY <1>2 DEF dep
<1>4. ASSUME NEW n \in 2..Len(log') PROVE log'[n] # log'[n - 1]
  <2>1. CASE n = Len(log')
    <3>1. log'[n] = new /\ log'[n - 1] = dep
      BY <1>1, <1>2, <2>1 DEF dep
    <3> QED
      BY <3>1
  <2>2. CASE n # Len(log')
    <3>1. n \in 2..Len(log) /\ n - 1 \in 1..Len(log)
      BY <1>1, <1>2, <2>2
    <3> QED
      BY <1>2, <3>1 DEF LogOK
  <2> QED
    BY <2>1, <2>2
<1> QED
  BY <1>1, <1>2, <1>3, <1>4 DEF LogOK

LEMMA WriteEffect ==
  ASSUME LogOK, NEW new \in Object, Write(new)
  PROVE  /\ LogOK' /\ dep' = new
         /\ \/ log' = log /\ fresh' = fresh
            \/ new # dep /\ log' = Append(log, new) /\ fresh' = {}
<1>1. CASE new = dep
  BY <1>1 DEF Write, LogOK, dep
<1>2. CASE new # dep
  BY <1>2, AppendEffect DEF Write
<1> QED
  BY <1>1, <1>2

LEMMA TailEffect ==
  ASSUME LogOK, Len(log) > 1, log' = Tail(log)
  PROVE  /\ LogOK' /\ dep' = dep
         /\ Len(log') = Len(log) - 1
         /\ \A n \in 1..(Len(log) - 1) : log'[n] = log[n + 1]
<1>1. Len(log) \in Nat /\ log \in Seq(Object)
  BY LogEnds DEF LogOK
<1>2. /\ log' \in Seq(Object) /\ Len(log') = Len(log) - 1 /\ log' # <<>>
      /\ \A n \in 1..(Len(log) - 1) : log'[n] = log[n + 1]
  <2>1. log # <<>>
    BY DEF LogOK
  <2>2. log' \in Seq(Object) /\ Len(log') = Len(log) - 1
    BY <1>1, <2>1
  <2>3. \A n \in 1..(Len(log) - 1) : log'[n] = log[n + 1]
    BY <1>1, <2>1
  <2> QED
    BY <1>1, <2>2, <2>3
<1>3. dep' = dep
  BY <1>1, <1>2 DEF dep
<1>4. ASSUME NEW n \in 2..Len(log') PROVE log'[n] # log'[n - 1]
  <2>1. /\ n \in 1..(Len(log) - 1) /\ n - 1 \in 1..(Len(log) - 1)
        /\ n + 1 \in 2..Len(log) /\ (n - 1) + 1 = (n + 1) - 1
    BY <1>1, <1>2
  <2> QED
    BY <1>2, <2>1 DEF LogOK
<1> QED
  BY <1>2, <1>3, <1>4 DEF LogOK

-----------------------------------------------------------------------------
(* Types *)

LEMMA IdleType ==
  Idle \in Work /\ Idle.pc = "idle" /\ ~Idle.maintenance /\ ~Idle.copy.finalizer
BY ConstantsAssumption DEF Idle, Work, Object

\* The copy of the deployment with some fields changed.
LEMMA ObjectType ==
  ASSUME NEW o \in Object
  PROVE  /\ \A b \in BOOLEAN :
              /\ [o EXCEPT !.finalizer = b] \in Object
              /\ [o EXCEPT !.maintain = b] \in Object
              /\ [o EXCEPT !.reconcile = b] \in Object
              /\ [o EXCEPT !.auto = b] \in Object
         /\ \A p \in {"present", "terminating", "gone"} : [o EXCEPT !.phase = p] \in Object
         /\ [o EXCEPT !.finalizer = FALSE, !.phase = "gone"] \in Object
         /\ \A n \in Nat : [o EXCEPT !.observed = n] \in Object
         /\ \A i \in SpecImages \cup Versions :
              /\ [o EXCEPT !.image = i] \in Object
              /\ [o EXCEPT !.roll = TRUE, !.image = i] \in Object
              /\ [o EXCEPT !.maintain = TRUE, !.image = i] \in Object
BY DEF Object

LEMMA StopType ==
  ASSUME work \in [Controllers -> Work], NEW c \in Controllers, Stop(c)
  PROVE  /\ work' \in [Controllers -> Work]
         /\ work'[c].pc = "idle" /\ work'[c] = Idle
         /\ \A d \in Controllers : d # c => work'[d] = work[d]
BY IdleType DEF Stop

LEMMA FinishType ==
  ASSUME work \in [Controllers -> Work], NEW c \in Controllers,
         NEW pc \in {"idle", "cleanup", "status"}, Finish(c, pc)
  PROVE  /\ work' \in [Controllers -> Work]
         /\ work'[c].pc = pc
         /\ \A d \in Controllers : d # c => work'[d] = work[d]
<1>1. work[c].observed \in Nat
  BY DEF Work
<1>2. [Idle EXCEPT !.pc = pc, !.observed = work[c].observed] \in Work
      /\ [Idle EXCEPT !.pc = pc, !.observed = work[c].observed].pc = pc
  BY <1>1, IdleType DEF Work
<1> QED
  BY <1>2, StopType, IdleType DEF Finish

LEMMA DeferredType ==
  ASSUME NEW c \in Controllers
  PROVE  Deferred(c) \in {"idle", "cleanup", "status"}
BY DEF Deferred

LEMMA RequeueType ==
  ASSUME queued \in [Controllers -> BOOLEAN], NEW c \in Controllers, Requeue(c)
  PROVE  queued' \in [Controllers -> BOOLEAN] /\ queued'[c]
         /\ \A d \in Controllers : d # c => queued'[d] = queued[d]
BY DEF Requeue

ResolvedOK ==
  \A c \in Controllers : work[c].pc \in {"compare", "write"} => work[c].newest \in Versions

\* No reconcile gets another copy.
Quiet ==
  /\ work' \in [Controllers -> Work] /\ ResolvedOK'
  /\ \A d \in Controllers : work'[d].pc = "got" => work'[d] = work[d]

\* One reconcile moves on to another step.
LEMMA QuietMove ==
  ASSUME work \in [Controllers -> Work], ResolvedOK, NEW c \in Controllers, NEW next \in Work,
         next.pc # "got", next.pc \in {"compare", "write"} => next.newest \in Versions,
         work' = [work EXCEPT ![c] = next]
  PROVE  Quiet
BY DEF Quiet, ResolvedOK

LEMMA QuietFinish ==
  ASSUME work \in [Controllers -> Work], ResolvedOK, NEW c \in Controllers,
         Stop(c) \/ \E pc \in {"idle", "cleanup", "status"} : Finish(c, pc)
  PROVE  Quiet
<1>1. CASE Stop(c)
  BY <1>1, IdleType, QuietMove DEF Stop
<1>2. ASSUME NEW pc \in {"idle", "cleanup", "status"}, Finish(c, pc) PROVE Quiet
  BY <1>2, FinishType DEF Quiet, ResolvedOK
<1> QED
  BY <1>1, <1>2

\* Copies with the current resource version stay what the API holds.
LEMMA CopiesKept ==
  ASSUME CopiesOK, Quiet, fresh' = {} \/ (log' = log /\ fresh' \subseteq fresh)
  PROVE  CopiesOK' /\ ResolvedOK'
BY DEF CopiesOK, Quiet, dep

HistType == hist \in [asked : Nat, updated : Nat, due : 0..MaxVersion, seen : BOOLEAN]
SetType == set \in [phase : {"absent", "live", "terminating"},
                    image : SpecImages \cup Versions, revision : Nat]

LEMMA LostType == HistType /\ Lost => HistType'
BY ConstantsAssumption DEF HistType, Lost

OtherTypes ==
  /\ queued \in [Controllers -> BOOLEAN] /\ work \in [Controllers -> Work]
  /\ running \in 0..MaxVersion /\ latest \in Versions /\ imageCache \in 0..latest
  /\ changes \in 0..MaxChanges /\ faults \in 0..MaxFaults

LEMMA Parts ==
  /\ TypeOK <=> LogOK /\ CopiesOK /\ ResolvedOK /\ SetType /\ HistType /\ OtherTypes
  /\ TypeOK' <=> LogOK' /\ CopiesOK' /\ ResolvedOK' /\ SetType' /\ HistType' /\ OtherTypes'
BY DEF TypeOK, LogOK, CopiesOK, ResolvedOK, SetType, HistType, OtherTypes

LEMMA InitType == Init => TypeOK
<1> SUFFICES ASSUME Init PROVE TypeOK
  OBVIOUS
<1>1. PICK i \in SpecImages :
        log = <<[phase |-> "present", finalizer |-> FALSE, image |-> i, auto |-> TRUE,
                 maintain |-> FALSE, reconcile |-> FALSE, roll |-> FALSE, observed |-> 0]>>
  BY DEF Init
<1>2. [phase |-> "present", finalizer |-> FALSE, image |-> i, auto |-> TRUE,
       maintain |-> FALSE, reconcile |-> FALSE, roll |-> FALSE, observed |-> 0] \in Object
  BY DEF Object
<1>3. LogOK /\ cache \in Object
  BY <1>1, <1>2 DEF LogOK, cache
<1>4. SetType
  BY <1>3 DEF Init, SetType, Object
<1>5. CopiesOK /\ ResolvedOK /\ HistType
  BY IdleType, ConstantsAssumption DEF Init, CopiesOK, ResolvedOK, HistType
<1> QED
  BY <1>3, <1>4, <1>5, Parts, IdleType, ConstantsAssumption DEF Init, Versions, OtherTypes

\* The steps of the generic reconciler.
LEMMA GenericType ==
  ASSUME TypeOK, NEW c \in Controllers, Generic(c)
  PROVE  TypeOK'
<1> USE DEF env, HistType, SetType, OtherTypes
<1>0. /\ LogOK /\ CopiesOK /\ ResolvedOK /\ SetType /\ HistType /\ OtherTypes
  BY Parts
<1>1. dep \in Object /\ cache \in Object /\ (~CacheLags => cache = dep)
  BY <1>0, LogEnds
<1>2. CASE Get(c)
  <2>1. queued' \in [Controllers -> BOOLEAN]
    BY <1>0, <1>2 DEF Get
  <2>2. LogOK'
    BY <1>0, <1>2 DEF Get, LogOK
  <2>3. CASE work' = work /\ fresh' = fresh
    BY <1>0, <1>2, <2>1, <2>2, <2>3, Parts DEF Get, CopiesOK, ResolvedOK, dep
  <2>4. CASE /\ work' = [work EXCEPT ![c] = [Idle EXCEPT !.pc = "got", !.copy = cache,
                                                          !.observed = cache.observed]]
             /\ fresh' = IF CacheLags THEN fresh \ {c} ELSE fresh \cup {c}
    <3>1. cache.observed \in Nat
      BY <1>1 DEF Object
    <3> DEFINE next == [Idle EXCEPT !.pc = "got", !.copy = cache, !.observed = cache.observed]
    <3>2. next \in Work /\ next.copy = cache /\ next.pc = "got"
      BY <1>1, <3>1, IdleType DEF Work
    <3> HIDE DEF next
    <3>3. work' \in [Controllers -> Work] /\ ResolvedOK'
      BY <1>0, <2>4, <3>2 DEF ResolvedOK, next
    <3>4. dep' = dep
      BY <1>2 DEF Get, dep
    <3>5. CopiesOK' /\ ResolvedOK'
      BY <1>0, <1>1, <2>4, <3>2, <3>3, <3>4 DEF CopiesOK, next
    <3> QED
      BY <1>0, <1>2, <2>1, <2>2, <3>3, <3>5, Parts DEF Get
  <2> QED
    BY <1>2, <2>3, <2>4 DEF Get
<1>3. CASE DeletionFlow(c)
  <2>1. Quiet
    BY <1>0, <1>3, QuietFinish DEF DeletionFlow
  <2>2. queued' \in [Controllers -> BOOLEAN]
    BY <1>0, <1>3, RequeueType DEF DeletionFlow
  <2>3. LogOK' /\ (fresh' = {} \/ (log' = log /\ fresh' \subseteq fresh))
    <3>1. [dep EXCEPT !.finalizer = FALSE, !.phase = "gone"] \in Object
      BY <1>1, ObjectType
    <3>2. CASE Write([dep EXCEPT !.finalizer = FALSE, !.phase = "gone"])
      BY <1>0, <3>1, <3>2, WriteEffect
    <3>3. CASE log' = log /\ fresh' \subseteq fresh
      BY <1>0, <3>3 DEF LogOK
    <3> QED
      BY <1>3, <3>2, <3>3 DEF DeletionFlow
  <2>4. CopiesOK' /\ ResolvedOK'
    BY <1>0, <2>1, <2>3, CopiesKept
  <2>5. SetType'
    BY <1>0, <1>3 DEF DeletionFlow
  <2> QED
    BY <1>0, <1>3, <2>1, <2>2, <2>3, <2>4, <2>5, Parts DEF DeletionFlow, Quiet
<1>4. CASE AddFinalizer(c)
  <2>1. CASE Stop(c) /\ Requeue(c) /\ UNCHANGED <<log, fresh>>
    <3>1. Quiet
      BY <1>0, <2>1, QuietFinish
    <3>2. CopiesOK' /\ ResolvedOK' /\ LogOK'
      BY <1>0, <2>1, <3>1, CopiesKept DEF LogOK
    <3> QED
      BY <1>0, <1>4, <2>1, <3>1, <3>2, RequeueType, Parts DEF AddFinalizer, Quiet
  <2>2. CASE ~Conflicts(c)
    <3> DEFINE new == [dep EXCEPT !.finalizer = TRUE]
    <3>1. work[c].copy = dep /\ ~dep.finalizer
      BY <1>0, <1>4, <2>2 DEF AddFinalizer, Got, Conflicts, CopiesOK
    <3>2. new \in Object /\ new # dep
      BY <1>1, <3>1 DEF Object
    <3>3. /\ log' = Append(log, new) /\ fresh' = {c} /\ queued' = queued
          /\ work' = [work EXCEPT ![c].copy = new]
      BY <1>4, <2>2 DEF AddFinalizer
    <3> HIDE DEF new
    <3>4. LogOK' /\ dep' = new
      BY <1>0, <3>2, <3>3, AppendEffect
    <3>5. work' \in [Controllers -> Work] /\ work'[c].copy = new
      BY <1>0, <3>2, <3>3 DEF Work
    <3>6. CopiesOK' /\ ResolvedOK'
      <4>1. \A d \in Controllers : work'[d].pc = work[d].pc /\ work'[d].newest = work[d].newest
        BY <1>0, <3>3 DEF Work
      <4> QED
        BY <1>0, <3>3, <3>4, <3>5, <4>1 DEF CopiesOK, ResolvedOK
    <3> QED
      BY <1>0, <1>4, <3>3, <3>4, <3>5, <3>6, Parts DEF AddFinalizer
  <2> QED
    BY <1>4, <2>1, <2>2 DEF AddFinalizer
<1>5. CASE RemoveReconcileAnnotation(c)
  <2>1. Quiet
    BY <1>0, <1>5, QuietFinish DEF RemoveReconcileAnnotation
  <2>2. queued' \in [Controllers -> BOOLEAN]
    BY <1>0, <1>5, RequeueType DEF RemoveReconcileAnnotation
  <2>3. LogOK' /\ (fresh' = {} \/ (log' = log /\ fresh' \subseteq fresh))
    <3>1. [dep EXCEPT !.reconcile = FALSE] \in Object
      BY <1>1, ObjectType
    <3>2. CASE Write([dep EXCEPT !.reconcile = FALSE])
      BY <1>0, <3>1, <3>2, WriteEffect
    <3>3. CASE log' = log /\ fresh' = fresh
      BY <1>0, <3>3 DEF LogOK
    <3> QED
      BY <1>5, <3>2, <3>3 DEF RemoveReconcileAnnotation
  <2>4. CopiesOK' /\ ResolvedOK'
    BY <1>0, <2>1, <2>3, CopiesKept
  <2> QED
    BY <1>0, <1>5, <2>1, <2>2, <2>3, <2>4, Parts DEF RemoveReconcileAnnotation, Quiet
<1>6. CASE StartReconcile(c)
  <2>1. Quiet
    <3>1. work[c].copy.maintain \in BOOLEAN
      BY <1>0 DEF Work, Object
    <3>2. PICK pc \in {"resolve", "reconcile"} :
            work' = [work EXCEPT ![c].maintenance = work[c].copy.maintain, ![c].pc = pc]
      BY <1>6 DEF StartReconcile
    <3> DEFINE next == [work[c] EXCEPT !.maintenance = work[c].copy.maintain, !.pc = pc]
    <3>3. next \in Work /\ next.pc = pc
      BY <1>0, <3>1 DEF Work
    <3>4. work' = [work EXCEPT ![c] = next]
      BY <1>0, <3>2
    <3> HIDE DEF next
    <3> QED
      BY <1>0, <3>3, <3>4, QuietMove
  <2>2. HistType'
    BY <1>0, <1>6 DEF StartReconcile, Work, Object
  <2>3. CopiesOK' /\ ResolvedOK'
    BY <1>0, <1>6, <2>1, CopiesKept DEF StartReconcile
  <2>4. LogOK'
    BY <1>0, <1>6 DEF StartReconcile, LogOK
  <2> QED
    BY <1>0, <1>6, <2>1, <2>2, <2>3, <2>4, Parts DEF StartReconcile, Quiet
<1>7. CASE Cleanup(c)
  <2>1. Quiet
    <3>1. PICK pc \in {"idle", "status"} : Finish(c, pc)
      BY <1>7 DEF Cleanup
    <3> QED
      BY <1>0, <3>1, QuietFinish
  <2>2. LogOK' /\ (fresh' = {} \/ (log' = log /\ fresh' \subseteq fresh))
    <3>1. [cache EXCEPT !.maintain = FALSE] \in Object
      BY <1>1, ObjectType
    <3>2. CASE Write([cache EXCEPT !.maintain = FALSE])
      BY <1>0, <3>1, <3>2, WriteEffect
    <3>3. CASE log' = log /\ fresh' = fresh
      BY <1>0, <3>3 DEF LogOK
    <3> QED
      BY <1>7, <3>2, <3>3 DEF Cleanup
  <2>3. CopiesOK' /\ ResolvedOK'
    BY <1>0, <2>1, <2>2, CopiesKept
  <2>4. HistType'
    BY <1>0, <1>7, LostType DEF Cleanup
  <2> QED
    BY <1>0, <1>7, <2>1, <2>2, <2>3, <2>4, Parts DEF Cleanup, Quiet
<1> QED
  BY <1>2, <1>3, <1>4, <1>5, <1>6, <1>7 DEF Generic

LEMMA DeploymentControllerType ==
  ASSUME TypeOK, ReconcileDeployment \/ UpdateStatus
  PROVE  TypeOK'
<1> USE DEF env, HistType, SetType, OtherTypes
<1>0. LogOK /\ CopiesOK /\ ResolvedOK /\ SetType /\ HistType /\ OtherTypes
  BY Parts
<1>1. dep \in Object /\ cache \in Object /\ "deployment" \in Controllers
  BY <1>0, LogEnds DEF Controllers
<1>2. CASE ReconcileDeployment
  <2> DEFINE w == work["deployment"]
             pc == Deferred("deployment")
             seen == IF set.phase = "absent" THEN w.observed ELSE set'.revision
             next == [Idle EXCEPT !.pc = pc, !.observed = seen]
  <2>1. w \in Work /\ w.copy.image \in SpecImages \cup Versions /\ w.observed \in Nat
    BY <1>0, <1>1 DEF Work, Object
  <2>2. SetType' /\ running' \in 0..MaxVersion
    BY <1>0, <1>2, <2>1, ConstantsAssumption DEF ReconcileDeployment
  <2>3. pc \in {"idle", "cleanup", "status"} /\ seen \in Nat
    BY <1>1, <2>1, <2>2, DeferredType
  <2>4. work' = [work EXCEPT !["deployment"] = next]
    BY <1>2 DEF ReconcileDeployment
  <2> HIDE DEF pc, seen
  <2>5. next \in Work /\ next.pc \in {"idle", "cleanup", "status"}
    BY <2>3, IdleType DEF Work
  <2> HIDE DEF next
  <2>6. Quiet
    BY <1>0, <1>1, <2>4, <2>5, QuietMove
  <2>7. LogOK' /\ CopiesOK' /\ ResolvedOK'
    BY <1>0, <1>2, <2>6, CopiesKept DEF ReconcileDeployment, LogOK
  <2> QED
    BY <1>0, <1>2, <2>2, <2>6, <2>7, Parts DEF ReconcileDeployment, Quiet
<1>3. CASE UpdateStatus
  <2>1. work["deployment"].observed \in Nat
    BY <1>0, <1>1 DEF Work
  <2>2. [cache EXCEPT !.observed = work["deployment"].observed] \in Object
    BY <1>1, <2>1, ObjectType
  <2>3. LogOK' /\ (fresh' = {} \/ (log' = log /\ fresh' = fresh))
    <3>1. CASE Write([cache EXCEPT !.observed = work["deployment"].observed])
      BY <1>0, <2>2, <3>1, WriteEffect
    <3>2. CASE log' = log /\ fresh' = fresh
      BY <1>0, <3>2 DEF LogOK
    <3> QED
      BY <1>3, <3>1, <3>2 DEF UpdateStatus
  <2>4. Quiet
    BY <1>0, <1>1, <1>3, QuietFinish DEF UpdateStatus
  <2>5. CopiesOK' /\ ResolvedOK'
    BY <1>0, <2>3, <2>4, CopiesKept
  <2> QED
    BY <1>0, <1>3, <2>3, <2>4, <2>5, Parts DEF UpdateStatus, Quiet
<1> QED
  BY <1>2, <1>3

LEMMA UpdateControllerType ==
  ASSUME TypeOK, ResolveImage \/ CompareImages \/ WriteImage
  PROVE  TypeOK'
<1> USE DEF env, HistType, SetType, OtherTypes
<1>0. LogOK /\ CopiesOK /\ ResolvedOK /\ SetType /\ HistType /\ OtherTypes
  BY Parts
<1>1. dep \in Object /\ cache \in Object /\ "update" \in Controllers /\ work["update"] \in Work
  BY <1>0, LogEnds DEF Controllers
<1>2. ASSUME Finish("update", Deferred("update")) PROVE Quiet
  <2>1. Deferred("update") \in {"idle", "cleanup", "status"}
    BY <1>1, DeferredType
  <2> QED
    BY <1>0, <1>1, <1>2, <2>1, QuietFinish
<1>3. ASSUME NEW n \in Versions, NEW pc \in {"compare", "write"},
             \/ work' = [work EXCEPT !["update"].pc = pc, !["update"].newest = n]
             \/ work' = [work EXCEPT !["update"].pc = pc] /\ work["update"].newest = n
      PROVE  Quiet
  <2> DEFINE next == [work["update"] EXCEPT !.pc = pc, !.newest = n]
  <2>1. next \in Work /\ next.pc = pc /\ next.newest = n
    BY <1>1 DEF Work
  <2>2. CASE work' = [work EXCEPT !["update"].pc = pc, !["update"].newest = n]
    <3>1. work' = [work EXCEPT !["update"] = next]
      BY <1>0, <1>1, <2>2
    <3> HIDE DEF next
    <3> QED
      BY <1>0, <1>1, <2>1, <3>1, QuietMove
  <2>3. CASE work' = [work EXCEPT !["update"].pc = pc] /\ work["update"].newest = n
    <3>1. next = [work["update"] EXCEPT !.pc = pc]
      BY <1>1, <2>3 DEF Work
    <3>2. work' = [work EXCEPT !["update"] = next]
      BY <1>0, <1>1, <2>3, <3>1
    <3> HIDE DEF next
    <3> QED
      BY <1>0, <1>1, <2>1, <3>2, QuietMove
  <2> QED
    BY <1>3, <2>2, <2>3
<1>4. CASE ResolveImage
  <2>1. imageCache' \in 0..latest /\ latest \in 1..MaxVersion
    BY <1>0, <1>4 DEF ResolveImage, Versions
  <2>2. Quiet
    <3>1. CASE Finish("update", Deferred("update"))
      BY <1>2, <3>1
    <3>2. CASE /\ imageCache' = IF imageCache = 0 THEN latest ELSE imageCache
               /\ work' = [work EXCEPT !["update"].pc = "compare", !["update"].newest = imageCache']
      <4>1. imageCache' \in Versions
        BY <1>0, <3>2, ConstantsAssumption DEF Versions
      <4> QED
        BY <1>3, <3>2, <4>1
    <3> QED
      BY <1>4, <3>1, <3>2 DEF ResolveImage
  <2>3. LogOK' /\ CopiesOK' /\ ResolvedOK'
    BY <1>0, <1>4, <2>2, CopiesKept DEF ResolveImage, LogOK
  <2> QED
    BY <1>0, <1>4, <2>1, <2>2, <2>3, Parts DEF ResolveImage, Quiet
<1>5. CASE CompareImages
  <2>1. Quiet
    <3>1. CASE Finish("update", Deferred("update"))
      BY <1>2, <3>1
    <3>2. CASE work' = [work EXCEPT !["update"].pc = "write"]
      <4>1. work["update"].newest \in Versions
        BY <1>0, <1>1, <1>5 DEF CompareImages, ResolvedOK
      <4> QED
        BY <1>3, <3>2, <4>1
    <3> QED
      BY <1>5, <3>1, <3>2 DEF CompareImages
  <2>2. LogOK' /\ CopiesOK' /\ ResolvedOK'
    BY <1>0, <1>5, <2>1, CopiesKept DEF CompareImages, LogOK
  <2>3. queued' \in [Controllers -> BOOLEAN]
    BY <1>0, <1>1, <1>5, RequeueType DEF CompareImages
  <2> QED
    BY <1>0, <1>5, <2>1, <2>2, <2>3, Parts DEF CompareImages, Quiet
<1>6. CASE WriteImage
  <2>1. Quiet
    BY <1>2, <1>6 DEF WriteImage
  <2> DEFINE new == [cache EXCEPT !.roll = TRUE, !.image = NewImage(@, work["update"].newest)]
  <2>2. LogOK' /\ (fresh' = {} \/ (log' = log /\ fresh' = fresh))
    <3>1. work["update"].newest \in Versions
      BY <1>0, <1>1, <1>6 DEF WriteImage, ResolvedOK
    <3>2. new \in Object
      <4>1. NewImage(cache.image, work["update"].newest) \in SpecImages \cup Versions
        BY <1>1, <3>1 DEF NewImage, Object
      <4> QED
        BY <1>1, <4>1 DEF Object
    <3>3. CASE Write(new)
      <4> HIDE DEF new
      <4> QED
        BY <1>0, <3>2, <3>3, WriteEffect
    <3>4. CASE log' = log /\ fresh' = fresh
      BY <1>0, <3>4 DEF LogOK
    <3> QED
      BY <1>6, <3>3, <3>4 DEF WriteImage
  <2>3. CopiesOK' /\ ResolvedOK'
    BY <1>0, <2>1, <2>2, CopiesKept
  <2>4. HistType'
    <3>1. hist' = [hist EXCEPT !.updated = @ + 0] \/ hist' = [hist EXCEPT !.updated = @ + 1] \/ Lost
      BY <1>6 DEF WriteImage
    <3> QED
      BY <1>0, <3>1, LostType
  <2>5. queued' \in [Controllers -> BOOLEAN]
    BY <1>0, <1>1, <1>6, RequeueType DEF WriteImage
  <2> QED
    BY <1>0, <1>6, <2>1, <2>2, <2>3, <2>4, <2>5, Parts DEF WriteImage, Quiet
<1> QED
  BY <1>4, <1>5, <1>6

\* The caches, the metal-api and the sets.
LEMMA EnvironmentType ==
  ASSUME TypeOK, Deliver \/ SetEvent \/ ImageCacheExpires \/ FirewallRuns \/ SetGone
  PROVE  TypeOK'
<1> USE DEF env, HistType, SetType, OtherTypes
<1>0. LogOK /\ CopiesOK /\ ResolvedOK /\ SetType /\ HistType /\ OtherTypes
  BY Parts
<1>1. CASE Deliver
  <2>1. LogOK' /\ dep' = dep
    BY <1>0, <1>1, TailEffect DEF Deliver
  <2>2. CopiesOK' /\ ResolvedOK'
    BY <1>0, <1>1, <2>1 DEF Deliver, CopiesOK, ResolvedOK
  <2>3. queued' \in [Controllers -> BOOLEAN]
    <3>1. \A c \in Controllers : (queued[c] \/ Passes(c, cache, log[2])) \in BOOLEAN
      OBVIOUS
    <3> QED
      BY <1>1, <3>1 DEF Deliver
  <2> QED
    BY <1>0, <1>1, <2>1, <2>2, <2>3, Parts DEF Deliver
<1>2. CASE SetEvent \/ ImageCacheExpires \/ FirewallRuns \/ SetGone
  <2>1. UNCHANGED <<log, work, fresh, hist>>
    BY <1>2 DEF SetEvent, ImageCacheExpires, FirewallRuns, SetGone
  <2>2. LogOK' /\ CopiesOK' /\ ResolvedOK' /\ HistType'
    <3>1. LogOK'
      BY <1>0, <2>1 DEF LogOK
    <3>2. CopiesOK' /\ ResolvedOK'
      BY <1>0, <2>1 DEF CopiesOK, ResolvedOK, dep
    <3>3. HistType'
      BY <1>0, <2>1
    <3> QED
      BY <3>1, <3>2, <3>3
  <2>3. SetType' /\ OtherTypes'
    <3>1. CASE SetEvent
      BY <1>0, <3>1 DEF SetEvent, Controllers
    <3>2. CASE ImageCacheExpires
      BY <1>0, <3>2 DEF ImageCacheExpires, Versions
    <3>3. CASE FirewallRuns
      BY <1>0, <3>3, ConstantsAssumption DEF FirewallRuns, Versions, Shorthand
    <3>4. CASE SetGone
      BY <1>0, <3>4, ConstantsAssumption DEF SetGone
    <3> QED
      BY <1>2, <3>1, <3>2, <3>3, <3>4
  <2> QED
    BY <2>2, <2>3, Parts
<1> QED
  BY <1>1, <1>2

\* Users and releases.
LEMMA UserType ==
  ASSUME TypeOK, Release \/ Maintain \/ Edit \/ \E i \in SpecImages : ChangeAndMaintain(i)
  PROVE  TypeOK'
<1> USE DEF env, HistType, SetType, OtherTypes
<1>0. LogOK /\ CopiesOK /\ ResolvedOK /\ SetType /\ HistType /\ OtherTypes
  BY Parts
<1>1. dep \in Object
  BY <1>0, LogEnds
<1>2. ASSUME NEW kind, Change(kind)
      PROVE  /\ changes' \in 0..MaxChanges
             /\ UNCHANGED <<queued, work, set, running, imageCache, faults>>
  BY <1>0, <1>2, ConstantsAssumption DEF Change
<1>3. ASSUME NEW kind, NEW new \in Object, User(kind, new), HistType'
      PROVE  TypeOK'
  <2>1. LogOK' /\ (fresh' = {} \/ (log' = log /\ fresh' = fresh))
    BY <1>0, <1>3, WriteEffect DEF User
  <2>2. UNCHANGED <<queued, work, set, running, imageCache, faults, latest>>
        /\ changes' \in 0..MaxChanges
    BY <1>2, <1>3 DEF User
  <2>3. CopiesOK' /\ ResolvedOK'
    BY <1>0, <2>1, <2>2, CopiesKept DEF Quiet, ResolvedOK
  <2> QED
    BY <1>0, <1>3, <2>1, <2>2, <2>3, Parts
<1>4. CASE Release
  <2>1. LogOK' /\ CopiesOK' /\ ResolvedOK' /\ HistType'
    BY <1>0, <1>2, <1>4 DEF Release, LogOK, CopiesOK, ResolvedOK, dep
  <2> QED
    BY <1>0, <1>2, <1>4, <2>1, ConstantsAssumption, Parts DEF Release, Versions
<1>5. CASE Maintain
  <2>1. [dep EXCEPT !.maintain = TRUE] \in Object
    BY <1>1, ObjectType
  <2>2. HistType'
    <3>1. PICK due \in {0, latest} : hist' = [hist EXCEPT !.asked = @ + 1, !.seen = FALSE, !.due = due]
      BY <1>5 DEF Maintain
    <3>2. due \in 0..MaxVersion /\ hist.asked + 1 \in Nat
      BY <1>0, ConstantsAssumption DEF Versions
    <3> QED
      BY <1>0, <3>1, <3>2
  <2> QED
    BY <1>3, <1>5, <2>1, <2>2 DEF Maintain
<1>6. ASSUME NEW i \in SpecImages, ChangeAndMaintain(i) PROVE TypeOK'
  <2>1. [dep EXCEPT !.maintain = TRUE, !.image = i] \in Object
    BY <1>1, ObjectType
  <2>2. HistType'
    <3>1. hist' = [hist EXCEPT !.asked = @ + 1, !.due = 0, !.seen = FALSE]
      BY <1>6 DEF ChangeAndMaintain
    <3>2. 0 \in 0..MaxVersion /\ hist.asked + 1 \in Nat
      BY <1>0, ConstantsAssumption
    <3> QED
      BY <1>0, <3>1, <3>2
  <2> QED
    BY <1>3, <1>6, <2>1, <2>2 DEF ChangeAndMaintain
<1>7. CASE Edit
  <2>1. HistType'
    BY <1>0, <1>7, LostType DEF Edit
  <2>2. /\ \A i \in SpecImages : [dep EXCEPT !.image = i] \in Object
        /\ [dep EXCEPT !.auto = ~@] \in Object
        /\ [dep EXCEPT !.reconcile = TRUE] \in Object
        /\ [dep EXCEPT !.phase = IF dep.finalizer THEN "terminating" ELSE "gone"] \in Object
    BY <1>1 DEF Object
  <2> QED
    BY <1>3, <1>7, <2>1, <2>2 DEF Edit
<1> QED
  BY <1>4, <1>5, <1>6, <1>7

LEMMA FailureType ==
  ASSUME TypeOK, Restart \/ \E c \in Controllers : ApiError(c)
  PROVE  TypeOK'
<1> USE DEF env, HistType, SetType, OtherTypes
<1>0. LogOK /\ CopiesOK /\ ResolvedOK /\ SetType /\ HistType /\ OtherTypes
  BY Parts
<1>1. ASSUME NEW kind, Fail(kind)
      PROVE  /\ faults' \in 0..MaxFaults /\ HistType'
             /\ UNCHANGED <<set, running, latest, changes>>
  BY <1>0, <1>1, LostType, ConstantsAssumption DEF Fail
<1>2. CASE Restart
  <2>1. LogOK' /\ CopiesOK'
    BY <1>0, <1>2, LogEnds DEF Restart, LogOK, CopiesOK
  <2>2. work' \in [Controllers -> Work] /\ ResolvedOK'
    BY <1>2, IdleType DEF Restart, ResolvedOK
  <2>3. queued' \in [Controllers -> BOOLEAN] /\ imageCache' \in 0..latest
    BY <1>0, <1>2 DEF Restart, Versions
  <2> QED
    BY <1>0, <1>1, <1>2, <2>1, <2>2, <2>3, Parts DEF Restart
<1>3. ASSUME NEW c \in Controllers, ApiError(c) PROVE TypeOK'
  <2>1. \/ Stop(c) \/ \E pc \in {"idle", "cleanup", "status"} : Finish(c, pc)
    BY <1>3, DeferredType DEF ApiError
  <2>2. queued' \in [Controllers -> BOOLEAN]
    BY <1>0, <1>3, RequeueType DEF ApiError
  <2>3. Quiet
    BY <1>0, <2>1, QuietFinish
  <2>4. CopiesOK' /\ ResolvedOK' /\ LogOK'
    BY <1>0, <1>3, <2>3, CopiesKept DEF ApiError, LogOK
  <2> QED
    BY <1>0, <1>1, <1>3, <2>2, <2>3, <2>4, Parts DEF ApiError, Quiet
<1> QED
  BY <1>2, <1>3

LEMMA NextType == TypeOK /\ [Next]_vars => TypeOK'
<1> SUFFICES ASSUME TypeOK, [Next]_vars PROVE TypeOK'
  OBVIOUS
<1>1. CASE UNCHANGED vars
  BY <1>1 DEF vars, TypeOK, dep
<1>2. CASE Next
  <2>1. "deployment" \in Controllers /\ "update" \in Controllers
    BY DEF Controllers
  <2> QED
    BY <1>2, <2>1, GenericType, DeploymentControllerType, UpdateControllerType, EnvironmentType,
       UserType, FailureType DEF Next, DeploymentController, UpdateController
<1> QED
  BY <1>1, <1>2

\* Every variable keeps its type, and a copy that is taken for current is what
\* the API holds (property TypeOK).
THEOREM TypeCorrect == Spec => []TypeOK
<1>1. Init => TypeOK
  BY InitType
<1>2. TypeOK /\ [Next]_vars => TypeOK'
  BY NextType
<1> QED
  BY <1>1, <1>2, PTL DEF Spec
-----------------------------------------------------------------------------
(* What one step may do to the requests for maintenance and to the finalizer *)

\* The steps at which a reconcile of the update controller may still move the
\* image; each of them stands for one request, as does its entry in the queue.
Before == {"got", "resolve", "compare", "write"}

Pending(q, pc) == (IF q THEN 1 ELSE 0) + (IF pc \in Before THEN 1 ELSE 0)
Underway == Pending(queued["update"], work["update"].pc)

Awake == queued["update"] \/ work["update"].pc # "idle"

\* The steps of the other controller are not those of this one.
UpdateSteps == work["update"].pc \notin {"reconcile", "status"}

\* Sets are only created for a deployment that was seen with its finalizer.
CreatesGuarded == work["deployment"].pc = "reconcile" => work["deployment"].copy.finalizer

Guarded(o) == o.finalizer \/ o.phase = "gone"

\* A version keeps the guard, and the deployment goes away only without a guard,
\* without sets, or by the update controller.
Admits(o) ==
  /\ Guarded(dep) => Guarded(o)
  /\ o.phase = "gone" => dep.phase = "gone" \/ ~Guarded(dep) \/ set.phase = "absent" \/ Awake

LogStep ==
  \/ log' = log
  \/ /\ log' = Append(log, dep') /\ dep' \in Object /\ dep' # dep
     /\ Admits(dep')
     /\ dep'.maintain /\ ~dep.maintain => hist'.asked = hist.asked + 1

OtherStep ==
  /\ hist'.asked \in {hist.asked, hist.asked + 1}
  /\ hist'.updated + Underway' <= hist.updated + Underway
  /\ Awake' => Awake
  /\ UpdateSteps' /\ CreatesGuarded'
  /\ \A c \in Controllers :
       work'[c].copy.finalizer => work[c].copy.finalizer \/ cache.finalizer \/ dep'.finalizer
  /\ set'.phase # "absent" => set.phase # "absent" \/ work["deployment"].pc = "reconcile"

LEMMA PendingType == ASSUME NEW q, NEW pc PROVE Pending(q, pc) \in 0..2
BY DEF Pending

LEMMA WriteStep ==
  ASSUME LogOK, NEW new \in Object, Write(new), Admits(new),
         new.maintain /\ ~dep.maintain => hist'.asked = hist.asked + 1
  PROVE  LogStep
BY WriteEffect DEF LogStep

\* A reconcile ends, or only its deferred functions are left, and it may be
\* queued again.
LEMMA FinishStep ==
  ASSUME TypeOK, UpdateSteps, CreatesGuarded, NEW c \in Controllers,
         \/ Stop(c)
         \/ \E pc \in {"idle", "cleanup", "status"} :
              Finish(c, pc) /\ (c = "update" => pc # "status"),
         queued' = queued \/ (Requeue(c) /\ (c = "update" => work[c].pc \in Before))
  PROVE  /\ Underway' <= Underway
         /\ c = "update" /\ work[c].pc \in Before /\ queued' = queued => Underway' + 1 <= Underway
         /\ UpdateSteps' /\ CreatesGuarded'
         /\ \A d \in Controllers : work'[d].copy.finalizer => work[d].copy.finalizer
         /\ c = "deployment" => (Awake' <=> Awake)
<1>1. /\ work \in [Controllers -> Work] /\ queued \in [Controllers -> BOOLEAN]
      /\ "update" \in Controllers /\ "deployment" \in Controllers
      /\ Controllers = {"deployment", "update"}
  BY DEF TypeOK, Controllers
<1>2. /\ work'[c].pc \in {"idle", "cleanup", "status"} /\ ~work'[c].copy.finalizer
      /\ c = "update" => work'[c].pc # "status"
      /\ \A d \in Controllers : d # c => work'[d] = work[d]
  <2>1. CASE Stop(c)
    BY <1>1, <2>1, StopType, IdleType
  <2>2. ASSUME NEW pc \in {"idle", "cleanup", "status"}, Finish(c, pc), c = "update" => pc # "status"
        PROVE  <1>2!:
    <3>1. work'[c].pc = pc /\ \A d \in Controllers : d # c => work'[d] = work[d]
      BY <1>1, <2>2, FinishType
    <3>2. ~work'[c].copy.finalizer
      <4>1. CASE pc = "idle"
        BY <1>1, <2>2, <4>1, StopType, IdleType DEF Finish
      <4>2. CASE pc # "idle"
        <5>1. work'[c] = [Idle EXCEPT !.pc = pc, !.observed = work[c].observed]
          BY <1>1, <2>2, <4>2 DEF Finish
        <5> QED
          BY <5>1, IdleType DEF Work
      <4> QED
        BY <4>1, <4>2
    <3> QED
      BY <2>2, <3>1, <3>2
  <2> QED
    BY <2>1, <2>2
<1>3. /\ \A d \in Controllers : d # c => queued'[d] = queued[d]
      /\ queued'[c] = queued[c] \/ (c = "update" => work[c].pc \in Before)
      /\ queued' \in [Controllers -> BOOLEAN]
  BY <1>1, RequeueType
<1>4. CASE c = "deployment"
  <2>1. work'["update"] = work["update"] /\ queued'["update"] = queued["update"]
    BY <1>1, <1>2, <1>3, <1>4
  <2>2. Underway' = Underway /\ (Awake' <=> Awake) /\ UpdateSteps'
    BY <2>1 DEF Underway, Awake, UpdateSteps
  <2>3. CreatesGuarded'
    BY <1>2, <1>4 DEF CreatesGuarded
  <2>4. Underway \in Int
    BY PendingType DEF Underway
  <2> QED
    BY <1>2, <1>4, <2>2, <2>3, <2>4
<1>5. CASE c = "update"
  <2>1. work'["deployment"] = work["deployment"]
    BY <1>1, <1>2, <1>5
  <2>2. CreatesGuarded' /\ UpdateSteps'
    BY <1>2, <1>5, <2>1 DEF CreatesGuarded, UpdateSteps
  <2>3. work'["update"].pc \notin Before
    BY <1>2, <1>5 DEF Before
  <2>4. /\ Underway' <= Underway
        /\ work[c].pc \in Before /\ queued' = queued => Underway' + 1 <= Underway
    BY <1>1, <1>3, <1>5, <2>3 DEF Underway, Pending
  <2> QED
    BY <1>2, <1>5, <2>2, <2>4
<1> QED
  BY <1>1, <1>4, <1>5

\* Generic reconciler: every step but those that set off a reconcile.
LEMMA GenericSteps ==
  ASSUME TypeOK, UpdateSteps, CreatesGuarded, NEW c \in Controllers, Generic(c)
  PROVE  LogStep /\ OtherStep
<1> USE DEF env
<1>1. /\ LogOK /\ CopiesOK /\ HistType /\ OtherTypes
      /\ dep \in Object /\ cache \in Object /\ (~CacheLags => cache = dep)
  BY Parts, LogEnds
<1>2. /\ work \in [Controllers -> Work] /\ queued \in [Controllers -> BOOLEAN]
      /\ "update" \in Controllers /\ "deployment" \in Controllers
      /\ Controllers = {"deployment", "update"}
      /\ hist.asked \in Nat /\ hist.updated \in Nat /\ Underway \in Int /\ Underway' \in Int
  BY <1>1, PendingType DEF OtherTypes, Controllers, HistType, Underway
<1>3. work[c].pc # "idle" \/ queued[c]
  BY DEF Generic, Get, DeletionFlow, AddFinalizer, RemoveReconcileAnnotation, StartReconcile,
         Cleanup, Got
<1>4. c = "update" => Awake
  BY <1>3 DEF Awake
<1>5. CASE Get(c)
  <2>1. log' = log /\ hist' = hist /\ set' = set /\ queued' = [queued EXCEPT ![c] = FALSE]
        /\ queued[c]
    BY <1>5 DEF Get
  <2>2. CASE work' = work
    <3>1. Underway' <= Underway
      BY <1>2, <2>1, <2>2 DEF Underway, Pending
    <3>2. UpdateSteps' /\ CreatesGuarded' /\ (Awake' => Awake)
      BY <1>2, <2>1, <2>2 DEF UpdateSteps, CreatesGuarded, Awake
    <3> QED
      BY <1>2, <2>1, <2>2, <3>1, <3>2 DEF LogStep, OtherStep
  <2>3. CASE work' = [work EXCEPT ![c] = [Idle EXCEPT !.pc = "got", !.copy = cache,
                                                      !.observed = cache.observed]]
    <3> DEFINE next == [Idle EXCEPT !.pc = "got", !.copy = cache, !.observed = cache.observed]
    <3>1. next.pc = "got" /\ next.copy = cache
      BY IdleType DEF Work
    <3> HIDE DEF next
    <3>2. /\ work'[c] = next /\ \A d \in Controllers : d # c => work'[d] = work[d]
      BY <1>2, <2>3 DEF next
    <3>3. UpdateSteps' /\ CreatesGuarded' /\ (Awake' => Awake)
      BY <1>2, <1>4, <2>1, <3>1, <3>2 DEF UpdateSteps, CreatesGuarded, Awake
    <3>4. work[c].pc = "idle"
      BY <1>5 DEF Get
    <3>5. Underway' <= Underway
      BY <1>2, <2>1, <3>1, <3>2, <3>4 DEF Underway, Pending, Before
    <3> QED
      BY <1>2, <2>1, <3>1, <3>2, <3>3, <3>5 DEF LogStep, OtherStep
  <2> QED
    BY <1>5, <2>2, <2>3 DEF Get
<1>6. CASE DeletionFlow(c)
  <2>1. /\ Stop(c) /\ (queued' = queued \/ Requeue(c))
        /\ work[c].pc = "got" /\ hist' = hist
    BY <1>6 DEF DeletionFlow, Got
  <2>2. LogStep
    <3>1. [dep EXCEPT !.finalizer = FALSE, !.phase = "gone"] \in Object
      BY <1>1, ObjectType
    <3>2. /\ Guarded([dep EXCEPT !.finalizer = FALSE, !.phase = "gone"])
          /\ [dep EXCEPT !.finalizer = FALSE, !.phase = "gone"].maintain = dep.maintain
      BY <1>1 DEF Guarded, Object
    <3>3. CASE Write([dep EXCEPT !.finalizer = FALSE, !.phase = "gone"]) /\ DeleteReturnsNil(c)
      <4>1. set.phase = "absent" \/ Awake
        BY <1>4, <3>3 DEF DeleteReturnsNil
      <4>2. Admits([dep EXCEPT !.finalizer = FALSE, !.phase = "gone"])
        BY <3>2, <4>1 DEF Admits
      <4> QED
        BY <1>1, <3>1, <3>2, <3>3, <4>2, WriteStep
    <3> QED
      BY <1>6, <3>3 DEF DeletionFlow, LogStep
  <2>3. set'.phase # "absent" => set.phase # "absent"
    BY <1>6 DEF DeletionFlow, DeleteReturnsNil
  <2>4. Underway' <= Underway /\ UpdateSteps' /\ CreatesGuarded'
        /\ \A d \in Controllers : work'[d].copy.finalizer => work[d].copy.finalizer
    BY <1>2, <2>1, FinishStep DEF Before
  <2>5. Awake' => Awake
    BY <1>2, <1>4, <2>1, FinishStep DEF Before
  <2> QED
    BY <1>2, <2>1, <2>2, <2>3, <2>4, <2>5 DEF OtherStep
<1>7. CASE AddFinalizer(c)
  <2>1. work[c].pc = "got" /\ hist' = hist /\ set' = set
    BY <1>7 DEF AddFinalizer, Got
  <2>2. CASE Stop(c) /\ Requeue(c) /\ UNCHANGED <<log, fresh>>
    <3>1. Underway' <= Underway /\ UpdateSteps' /\ CreatesGuarded'
          /\ \A d \in Controllers : work'[d].copy.finalizer => work[d].copy.finalizer
      BY <2>1, <2>2, FinishStep DEF Before
    <3>2. Awake' => Awake
      BY <1>2, <1>4, <2>1, <2>2, FinishStep DEF Before
    <3> QED
      BY <1>2, <2>1, <2>2, <3>1, <3>2 DEF LogStep, OtherStep
  <2>3. CASE ~Conflicts(c)
    <3> DEFINE new == [dep EXCEPT !.finalizer = TRUE]
    <3>1. work[c].copy = dep /\ ~dep.finalizer
      BY <1>1, <1>7, <2>3 DEF AddFinalizer, Got, Conflicts, CopiesOK
    <3>2. new \in Object /\ new # dep /\ new.finalizer /\ new.maintain = dep.maintain
          /\ new.phase = dep.phase
      BY <1>1, <3>1 DEF Object
    <3>3. /\ log' = Append(log, new) /\ queued' = queued
          /\ work' = [work EXCEPT ![c].copy = new]
      BY <1>7, <2>3 DEF AddFinalizer
    <3> HIDE DEF new
    <3>4. dep' = new
      BY <1>1, <3>2, <3>3, AppendEffect
    <3>5. /\ \A d \in Controllers : work'[d].pc = work[d].pc
          /\ \A d \in Controllers : d # c => work'[d] = work[d]
      BY <1>2, <3>3 DEF Work
    <3>6. LogStep
      BY <3>2, <3>3, <3>4 DEF LogStep, Guarded, Admits
    <3>7. UpdateSteps' /\ Underway' = Underway /\ (Awake' => Awake)
      BY <1>2, <3>3, <3>5 DEF UpdateSteps, Underway, Awake
    <3>8. CreatesGuarded'
      BY <1>2, <2>1, <3>5 DEF CreatesGuarded
    <3> QED
      BY <1>2, <2>1, <3>2, <3>4, <3>5, <3>6, <3>7, <3>8 DEF OtherStep
  <2> QED
    BY <1>7, <2>2, <2>3 DEF AddFinalizer
<1>8. CASE RemoveReconcileAnnotation(c)
  <2>1. /\ Stop(c) /\ (queued' = queued \/ Requeue(c))
        /\ work[c].pc = "got" /\ hist' = hist /\ set' = set
    BY <1>8 DEF RemoveReconcileAnnotation, Got
  <2>2. LogStep
    <3>1. [dep EXCEPT !.reconcile = FALSE] \in Object
      BY <1>1, ObjectType
    <3>2. /\ Admits([dep EXCEPT !.reconcile = FALSE])
          /\ [dep EXCEPT !.reconcile = FALSE].maintain = dep.maintain
      BY <1>1 DEF Guarded, Admits, Object
    <3>3. CASE Write([dep EXCEPT !.reconcile = FALSE])
      BY <1>1, <3>1, <3>2, <3>3, WriteStep
    <3> QED
      BY <1>8, <3>3 DEF RemoveReconcileAnnotation, LogStep
  <2>3. Underway' <= Underway /\ UpdateSteps' /\ CreatesGuarded'
        /\ \A d \in Controllers : work'[d].copy.finalizer => work[d].copy.finalizer
    BY <1>2, <2>1, FinishStep DEF Before
  <2>4. Awake' => Awake
    BY <1>2, <1>4, <2>1, FinishStep DEF Before
  <2> QED
    BY <1>2, <2>1, <2>2, <2>3, <2>4 DEF OtherStep
<1>9. CASE StartReconcile(c)
  <2>1. /\ work[c].pc = "got" /\ work[c].copy.finalizer
        /\ queued' = queued /\ log' = log /\ set' = set
        /\ hist'.asked = hist.asked /\ hist'.updated = hist.updated
    BY <1>1, <1>9 DEF StartReconcile, Got, HistType
  <2> DEFINE pc == IF c = "update" THEN "resolve" ELSE "reconcile"
  <2>2. work' = [work EXCEPT ![c].maintenance = work[c].copy.maintain, ![c].pc = pc]
    BY <1>9 DEF StartReconcile
  <2> HIDE DEF pc
  <2>3. /\ work'[c].pc = pc /\ work'[c].copy = work[c].copy
        /\ \A d \in Controllers : d # c => work'[d] = work[d]
    BY <1>2, <2>2 DEF Work
  <2>4. UpdateSteps' /\ CreatesGuarded' /\ Underway' = Underway /\ (Awake' => Awake)
    BY <1>2, <1>4, <2>1, <2>3 DEF pc, UpdateSteps, CreatesGuarded, Underway, Pending, Before, Awake
  <2> QED
    BY <1>2, <2>1, <2>3, <2>4 DEF LogStep, OtherStep
<1>10. CASE Cleanup(c)
  <2>1. /\ Finish(c, IF c = "deployment" THEN "status" ELSE "idle")
        /\ queued' = queued /\ set' = set
    BY <1>10 DEF Cleanup
  <2>2. hist'.asked = hist.asked /\ hist'.updated = hist.updated
    BY <1>1, <1>10 DEF Cleanup, Lost, HistType
  <2>3. LogStep
    <3>1. [cache EXCEPT !.maintain = FALSE] \in Object
          /\ ~[cache EXCEPT !.maintain = FALSE].maintain
      <4>1. [cache EXCEPT !.maintain = FALSE] \in Object
        BY <1>1, ObjectType
      <4> QED
        BY <1>1, <4>1 DEF Object
    <3>2. CASE Write([cache EXCEPT !.maintain = FALSE]) /\ ~CacheLags
      <4>1. Admits([cache EXCEPT !.maintain = FALSE])
        BY <1>1, <3>2 DEF Guarded, Admits, Object
      <4> QED
        BY <1>1, <3>1, <3>2, <4>1, WriteStep
    <3> QED
      BY <1>10, <3>2 DEF Cleanup, RemovesMaintenance, LogStep
  <2>4. \E pc \in {"idle", "cleanup", "status"} : Finish(c, pc) /\ (c = "update" => pc # "status")
    BY <2>1
  <2>5. Underway' <= Underway /\ UpdateSteps' /\ CreatesGuarded'
        /\ \A d \in Controllers : work'[d].copy.finalizer => work[d].copy.finalizer
    BY <2>1, <2>4, FinishStep
  <2>6. Awake' => Awake
    BY <1>2, <1>4, <2>1, <2>4, FinishStep
  <2> QED
    BY <1>2, <2>1, <2>2, <2>3, <2>5, <2>6 DEF OtherStep
<1> QED
  BY <1>5, <1>6, <1>7, <1>8, <1>9, <1>10 DEF Generic
LEMMA ControllerSteps ==
  ASSUME TypeOK, UpdateSteps, CreatesGuarded,
         ReconcileDeployment \/ UpdateStatus \/ ResolveImage \/ CompareImages \/ WriteImage
  PROVE  LogStep /\ OtherStep
<1> USE DEF env
<1>1. /\ LogOK /\ CopiesOK /\ ResolvedOK /\ HistType /\ OtherTypes
      /\ dep \in Object /\ cache \in Object /\ (~CacheLags => cache = dep)
  BY Parts, LogEnds
<1>2. /\ work \in [Controllers -> Work] /\ queued \in [Controllers -> BOOLEAN]
      /\ "update" \in Controllers /\ "deployment" \in Controllers
      /\ Controllers = {"deployment", "update"}
      /\ hist.asked \in Nat /\ hist.updated \in Nat /\ Underway \in Int /\ Underway' \in Int
  BY <1>1, PendingType DEF OtherTypes, Controllers, HistType, Underway
<1>3. CASE ReconcileDeployment
  <2> DEFINE next == [Idle EXCEPT !.pc = Deferred("deployment"),
                                  !.observed = IF set.phase = "absent"
                                               THEN work["deployment"].observed
                                               ELSE set'.revision]
  <2>1. /\ work' = [work EXCEPT !["deployment"] = next]
        /\ queued' = queued /\ log' = log /\ hist' = hist
        /\ work["deployment"].pc = "reconcile"
    BY <1>3 DEF ReconcileDeployment
  <2>2. next.pc = Deferred("deployment") /\ ~next.copy.finalizer
    BY IdleType DEF Work
  <2> HIDE DEF next
  <2>3. /\ work'["update"] = work["update"] /\ work'["deployment"] = next
    BY <1>2, <2>1
  <2>4. next.pc # "reconcile"
    BY <1>2, <2>2, DeferredType
  <2>5. Underway' = Underway /\ UpdateSteps' /\ CreatesGuarded' /\ (Awake' => Awake)
    BY <2>1, <2>3, <2>4 DEF Underway, UpdateSteps, CreatesGuarded, Awake
  <2> QED
    BY <1>2, <2>1, <2>2, <2>3, <2>5 DEF LogStep, OtherStep
<1>4. CASE UpdateStatus
  <2>1. Stop("deployment") /\ queued' = queued /\ hist' = hist /\ set' = set
    BY <1>4 DEF UpdateStatus
  <2>2. LogStep
    <3> DEFINE new == [cache EXCEPT !.observed = work["deployment"].observed]
    <3>1. new \in Object /\ new.maintain = cache.maintain
          /\ new.finalizer = cache.finalizer /\ new.phase = cache.phase
      BY <1>1, <1>2 DEF Object, Work
    <3>2. CASE Write(new) /\ ~CacheLags
      <4> HIDE DEF new
      <4>1. Admits(new)
        BY <1>1, <3>1, <3>2 DEF Guarded, Admits
      <4> QED
        BY <1>1, <3>1, <3>2, <4>1, WriteStep
    <3> QED
      BY <1>4, <3>2 DEF UpdateStatus, LogStep
  <2>3. Underway' <= Underway /\ UpdateSteps' /\ CreatesGuarded' /\ (Awake' <=> Awake)
        /\ \A d \in Controllers : work'[d].copy.finalizer => work[d].copy.finalizer
    BY <1>2, <2>1, FinishStep
  <2> QED
    BY <1>2, <2>1, <2>2, <2>3 DEF OtherStep
<1>5. ASSUME ResolveImage \/ CompareImages \/ WriteImage
      PROVE  Awake /\ work["update"].pc \in Before /\ set' = set
  BY <1>5 DEF ResolveImage, CompareImages, WriteImage, Awake, Before
<1>6. Deferred("update") \in {"idle", "cleanup"}
  BY DEF Deferred
<1>7. ASSUME NEW pc \in {"compare", "write"}, work["update"].pc \in Before, Awake,
             work'["update"].pc = pc, work'["update"].copy = work["update"].copy,
             work'["deployment"] = work["deployment"], queued' = queued
      PROVE  /\ Underway' = Underway /\ UpdateSteps' /\ CreatesGuarded' /\ (Awake' => Awake)
             /\ \A d \in Controllers : work'[d].copy.finalizer => work[d].copy.finalizer
  BY <1>2, <1>7 DEF Underway, Pending, Before, UpdateSteps, CreatesGuarded
<1>8. CASE ResolveImage
  <2>1. queued' = queued /\ log' = log /\ hist' = hist
    BY <1>8 DEF ResolveImage
  <2>2. CASE Finish("update", Deferred("update"))
    <3>1. Underway' <= Underway /\ UpdateSteps' /\ CreatesGuarded'
          /\ \A d \in Controllers : work'[d].copy.finalizer => work[d].copy.finalizer
      BY <1>2, <1>6, <2>1, <2>2, FinishStep
    <3> QED
      BY <1>2, <1>5, <1>8, <2>1, <3>1 DEF LogStep, OtherStep
  <2>3. CASE work' = [work EXCEPT !["update"].pc = "compare", !["update"].newest = imageCache']
    <3>1. /\ work'["update"].pc = "compare" /\ work'["update"].copy = work["update"].copy
          /\ work'["deployment"] = work["deployment"]
      BY <1>2, <2>3 DEF Work
    <3> QED
      BY <1>2, <1>5, <1>7, <1>8, <2>1, <3>1 DEF LogStep, OtherStep
  <2> QED
    BY <1>8, <2>2, <2>3 DEF ResolveImage
<1>9. CASE CompareImages
  <2>1. log' = log /\ hist' = hist
    BY <1>9 DEF CompareImages
  <2>2. CASE Finish("update", Deferred("update")) /\ (queued' = queued \/ Requeue("update"))
    <3>1. Underway' <= Underway /\ UpdateSteps' /\ CreatesGuarded'
          /\ \A d \in Controllers : work'[d].copy.finalizer => work[d].copy.finalizer
      BY <1>2, <1>5, <1>6, <1>9, <2>2, FinishStep
    <3> QED
      BY <1>2, <1>5, <1>9, <2>1, <3>1 DEF LogStep, OtherStep
  <2>3. CASE work' = [work EXCEPT !["update"].pc = "write"] /\ queued' = queued
    <3>1. /\ work'["update"].pc = "write" /\ work'["update"].copy = work["update"].copy
          /\ work'["deployment"] = work["deployment"]
      BY <1>2, <2>3 DEF Work
    <3> QED
      BY <1>2, <1>5, <1>7, <1>9, <2>1, <2>3, <3>1 DEF LogStep, OtherStep
  <2> QED
    BY <1>9, <2>2, <2>3 DEF CompareImages
<1>10. CASE WriteImage
  <2>1. Finish("update", Deferred("update")) /\ set' = set
    BY <1>10 DEF WriteImage
  <2>2. CASE Requeue("update") /\ Lost /\ log' = log
    <3>1. Underway' <= Underway /\ UpdateSteps' /\ CreatesGuarded'
          /\ \A d \in Controllers : work'[d].copy.finalizer => work[d].copy.finalizer
      BY <1>2, <1>5, <1>6, <1>10, <2>1, <2>2, FinishStep
    <3>2. hist'.asked = hist.asked /\ hist'.updated = hist.updated
      BY <1>1, <2>2 DEF Lost, HistType
    <3> QED
      BY <1>2, <1>5, <1>10, <2>1, <2>2, <3>1, <3>2 DEF LogStep, OtherStep
  <2>3. CASE /\ ~CacheLags /\ queued' = queued
             /\ Write([cache EXCEPT !.roll = TRUE, !.image = NewImage(@, work["update"].newest)])
             /\ \E k \in {0, 1} : hist' = [hist EXCEPT !.updated = @ + k]
    <3>1. Underway' + 1 <= Underway /\ UpdateSteps' /\ CreatesGuarded'
          /\ \A d \in Controllers : work'[d].copy.finalizer => work[d].copy.finalizer
      BY <1>2, <1>5, <1>6, <1>10, <2>1, <2>3, FinishStep
    <3>2. hist'.asked = hist.asked /\ hist'.updated \in {hist.updated, hist.updated + 1}
      BY <1>1, <2>3 DEF HistType
    <3>3. LogStep
      <4> DEFINE new == [cache EXCEPT !.roll = TRUE, !.image = NewImage(@, work["update"].newest)]
      <4>1. work["update"].newest \in Versions
        BY <1>1, <1>2, <1>10 DEF WriteImage, ResolvedOK
      <4>2. NewImage(cache.image, work["update"].newest) \in SpecImages \cup Versions
        BY <1>1, <4>1 DEF NewImage, Object
      <4>3. new \in Object /\ new.maintain = cache.maintain
            /\ new.finalizer = cache.finalizer /\ new.phase = cache.phase
        BY <1>1, <4>2 DEF Object
      <4> HIDE DEF new
      <4>4. Write(new)
        BY <2>3 DEF new
      <4>5. Admits(new)
        BY <1>1, <2>3, <4>3 DEF Guarded, Admits
      <4> QED
        BY <1>1, <2>3, <4>3, <4>4, <4>5, WriteStep
    <3> QED
      BY <1>2, <1>5, <1>10, <2>1, <2>3, <3>1, <3>2, <3>3 DEF OtherStep
  <2> QED
    BY <1>10, <2>2, <2>3 DEF WriteImage
<1> QED
  BY <1>3, <1>4, <1>8, <1>9, <1>10

LEMMA OutsideSteps ==
  ASSUME TypeOK, UpdateSteps, CreatesGuarded,
         \/ SetEvent \/ ImageCacheExpires \/ FirewallRuns \/ SetGone
         \/ Release \/ Maintain \/ Edit \/ \E i \in SpecImages : ChangeAndMaintain(i)
         \/ \E c \in Controllers : ApiError(c)
  PROVE  LogStep /\ OtherStep
<1> USE DEF env
<1>1. /\ LogOK /\ HistType /\ OtherTypes /\ dep \in Object
  BY Parts, LogEnds
<1>2. /\ work \in [Controllers -> Work] /\ queued \in [Controllers -> BOOLEAN]
      /\ "update" \in Controllers /\ "deployment" \in Controllers
      /\ Controllers = {"deployment", "update"}
      /\ hist.asked \in Nat /\ hist.updated \in Nat /\ Underway \in Int /\ Underway' \in Int
  BY <1>1, PendingType DEF OtherTypes, Controllers, HistType, Underway
<1>3. ASSUME work' = work, queued'["update"] = queued["update"],
             hist'.asked \in {hist.asked, hist.asked + 1}, hist'.updated = hist.updated,
             set'.phase # "absent" => set.phase # "absent"
      PROVE  OtherStep
  <2>1. Underway' = Underway /\ UpdateSteps' /\ CreatesGuarded' /\ (Awake' => Awake)
    BY <1>3 DEF Underway, UpdateSteps, CreatesGuarded, Awake
  <2> QED
    BY <1>2, <1>3, <2>1 DEF OtherStep
<1>4. CASE SetEvent \/ ImageCacheExpires \/ FirewallRuns
  BY <1>2, <1>3, <1>4 DEF SetEvent, ImageCacheExpires, FirewallRuns, LogStep
<1>5. CASE SetGone
  BY <1>2, <1>3, <1>5 DEF SetGone, LogStep
<1>6. CASE Release
  BY <1>2, <1>3, <1>6 DEF Release, Change, LogStep
<1>7. ASSUME NEW kind, NEW new \in Object, User(kind, new), Admits(new),
             hist'.updated = hist.updated, hist'.asked \in {hist.asked, hist.asked + 1},
             new.maintain /\ ~dep.maintain => hist'.asked = hist.asked + 1
      PROVE  LogStep /\ OtherStep
  BY <1>1, <1>3, <1>7, WriteStep DEF User, Change
<1>8. CASE Maintain
  <2>1. [dep EXCEPT !.maintain = TRUE] \in Object
        /\ Admits([dep EXCEPT !.maintain = TRUE])
    BY <1>1 DEF Object, Guarded, Admits
  <2>2. hist'.updated = hist.updated /\ hist'.asked = hist.asked + 1
    <3>1. \E due : hist' = [hist EXCEPT !.asked = @ + 1, !.seen = FALSE, !.due = due]
      BY <1>8 DEF Maintain
    <3> QED
      BY <1>1, <3>1 DEF HistType
  <2> QED
    BY <1>7, <1>8, <2>1, <2>2 DEF Maintain
<1>9. ASSUME NEW i \in SpecImages, ChangeAndMaintain(i) PROVE LogStep /\ OtherStep
  <2>1. [dep EXCEPT !.maintain = TRUE, !.image = i] \in Object
        /\ Admits([dep EXCEPT !.maintain = TRUE, !.image = i])
    BY <1>1 DEF Object, Guarded, Admits
  <2>2. hist'.updated = hist.updated /\ hist'.asked = hist.asked + 1
    <3>1. hist' = [hist EXCEPT !.asked = @ + 1, !.due = 0, !.seen = FALSE]
      BY <1>9 DEF ChangeAndMaintain
    <3> QED
      BY <1>1, <3>1 DEF HistType
  <2> QED
    BY <1>7, <1>9, <2>1, <2>2 DEF ChangeAndMaintain
<1>10. CASE Edit
  <2>1. hist'.asked = hist.asked /\ hist'.updated = hist.updated
    BY <1>1, <1>10 DEF Edit, Lost, HistType
  <2>2. PICK kind, new :
          /\ User(kind, new)
          /\ \/ \E i \in SpecImages : new = [dep EXCEPT !.image = i]
             \/ new = [dep EXCEPT !.auto = ~@]
             \/ new = [dep EXCEPT !.reconcile = TRUE]
             \/ new = [dep EXCEPT !.phase = IF dep.finalizer THEN "terminating" ELSE "gone"]
    BY <1>10 DEF Edit
  <2>3. dep.phase # "gone"
    BY <2>2 DEF User
  <2>4. new \in Object /\ new.maintain = dep.maintain /\ Admits(new)
    BY <1>1, <2>2, <2>3 DEF Object, Guarded, Admits
  <2> QED
    BY <1>2, <1>7, <2>1, <2>2, <2>4
<1>11. ASSUME NEW c \in Controllers, ApiError(c) PROVE LogStep /\ OtherStep
  <2>1. hist'.asked = hist.asked /\ hist'.updated = hist.updated /\ log' = log /\ set' = set
        /\ work[c].pc # "idle"
    BY <1>1, <1>11 DEF ApiError, Fail, Lost, HistType
  <2>2. /\ \/ Stop(c)
           \/ \E pc \in {"idle", "cleanup", "status"} : Finish(c, pc) /\ (c = "update" => pc # "status")
        /\ queued' = queued \/ (Requeue(c) /\ work[c].pc \notin {"idle", "cleanup", "status"})
    BY <1>11 DEF ApiError, Deferred
  <2>3. work[c].pc \notin {"idle", "cleanup", "status"} /\ c = "update" => work[c].pc \in Before
    BY <1>2 DEF UpdateSteps, Before, Work
  <2>4. /\ Underway' <= Underway /\ UpdateSteps' /\ CreatesGuarded'
        /\ \A d \in Controllers : work'[d].copy.finalizer => work[d].copy.finalizer
        /\ c = "deployment" => (Awake' <=> Awake)
    BY <2>2, <2>3, FinishStep
  <2>5. c = "update" => Awake
    BY <2>1 DEF Awake
  <2> QED
    BY <1>2, <2>1, <2>4, <2>5 DEF LogStep, OtherStep
<1> QED
  BY <1>4, <1>5, <1>6, <1>8, <1>9, <1>10, <1>11

LEMMA NextSteps ==
  ASSUME TypeOK, UpdateSteps, CreatesGuarded, Next
  PROVE  (LogStep /\ OtherStep) \/ Deliver \/ Restart
<1>1. "deployment" \in Controllers /\ "update" \in Controllers
  BY DEF Controllers
<1> QED
  BY <1>1, GenericSteps, ControllerSteps, OutsideSteps
     DEF Next, DeploymentController, UpdateController
-----------------------------------------------------------------------------
(* One update for each request *)

\* The versions that will start the update controller once they are delivered.
Rising(q) == {n \in 2..Len(q) : q[n].maintain /\ ~q[n - 1].maintain}

\* An update that was made and one that may still be made, in progress, queued
\* or not delivered yet, is one that was asked for.
Account == hist.updated + Underway + Cardinality(Rising(log)) <= hist.asked

AccountInv == TypeOK /\ UpdateSteps /\ CreatesGuarded /\ Account

LEMMA RisingFinite ==
  ASSUME LogOK
  PROVE  IsFiniteSet(Rising(log)) /\ Cardinality(Rising(log)) \in Nat
<1>1. IsFiniteSet(2..Len(log)) /\ Rising(log) \in SUBSET (2..Len(log))
  BY LogEnds, FS_Interval DEF Rising
<1> QED
  BY <1>1, FS_Subset, FS_CardinalityType

LEMMA RisingAppend ==
  ASSUME LogOK, dep' \in Object, dep' # dep, log' = Append(log, dep')
  PROVE  /\ dep'.maintain /\ ~dep.maintain =>
              Cardinality(Rising(log')) = Cardinality(Rising(log)) + 1
         /\ ~(dep'.maintain /\ ~dep.maintain) => Rising(log') = Rising(log)
<1>1. /\ Len(log) \in Nat /\ Len(log) >= 1 /\ Len(log') = Len(log) + 1
      /\ log'[Len(log) + 1] = dep' /\ log'[Len(log)] = dep
      /\ \A n \in 1..Len(log) : log'[n] = log[n]
  <2>1. Len(log) \in Nat /\ Len(log) >= 1
    BY LogEnds
  <2>2. /\ Len(log') = Len(log) + 1 /\ log'[Len(log')] = dep'
        /\ \A n \in 1..Len(log) : log'[n] = log[n]
    BY AppendEffect
  <2> QED
    BY <2>1, <2>2 DEF dep
<1>2. \A n \in 2..Len(log) : n \in Rising(log') <=> n \in Rising(log)
  BY <1>1 DEF Rising
<1>3. Len(log) + 1 \in Rising(log') <=> dep'.maintain /\ ~dep.maintain
  BY <1>1 DEF Rising
<1>4. Rising(log') \subseteq 2..(Len(log) + 1) /\ Rising(log) \subseteq 2..Len(log)
  BY <1>1 DEF Rising
<1>5. CASE dep'.maintain /\ ~dep.maintain
  <2>1. Rising(log') = Rising(log) \cup {Len(log) + 1} /\ Len(log) + 1 \notin Rising(log)
    BY <1>1, <1>2, <1>3, <1>4, <1>5
  <2> QED
    BY <1>5, <2>1, RisingFinite, FS_AddElement
<1>6. CASE ~(dep'.maintain /\ ~dep.maintain)
  <2>1. ASSUME NEW n \in Rising(log') PROVE n \in Rising(log)
    <3>1. n \in 2..(Len(log) + 1) /\ n # Len(log) + 1
      BY <1>3, <1>4, <1>6, <2>1
    <3> QED
      BY <1>1, <1>2, <2>1, <3>1
  <2>2. ASSUME NEW n \in Rising(log) PROVE n \in Rising(log')
    BY <1>2, <1>4, <2>2
  <2> QED
    BY <1>6, <2>1, <2>2
<1> QED
  BY <1>5, <1>6

\* What is delivered is no longer waiting.
LEMMA RisingTail ==
  ASSUME LogOK, Len(log) > 1, log' = Tail(log)
  PROVE  Cardinality(Rising(log')) + (IF Passes("update", cache, log[2]) THEN 1 ELSE 0)
           <= Cardinality(Rising(log))
<1>1. /\ Len(log) \in Nat /\ Len(log') = Len(log) - 1 /\ LogOK'
      /\ \A n \in 1..(Len(log) - 1) : log'[n] = log[n + 1]
  BY LogEnds, TailEffect
<1>2. IsFiniteSet(Rising(log)) /\ Cardinality(Rising(log)) \in Nat
  BY RisingFinite
<1>3. 2 \in Rising(log) <=> Passes("update", cache, log[2])
  <2>1. cache = log[1] /\ 2 \in 2..Len(log)
    BY <1>1 DEF cache, LogOK
  <2> QED
    BY <2>1 DEF Rising, Passes, AnnotationAdded
<1> DEFINE S == Rising(log) \ {2}
           f == [n \in S |-> n - 1]
<1>4. /\ IsFiniteSet(S)
      /\ Cardinality(S) = IF 2 \in Rising(log) THEN Cardinality(Rising(log)) - 1
                                               ELSE Cardinality(Rising(log))
  BY <1>2, FS_RemoveElement
<1>5. f \in Surjection(S, Rising(log'))
  <2>1. ASSUME NEW n \in S PROVE n - 1 \in Rising(log')
    <3>1. /\ n \in 3..Len(log) /\ log[n].maintain /\ ~log[n - 1].maintain
      BY <1>1, <2>1 DEF Rising
    <3>2. /\ n - 1 \in 2..Len(log') /\ n - 1 \in 1..(Len(log) - 1)
          /\ (n - 1) - 1 \in 1..(Len(log) - 1)
          /\ (n - 1) + 1 = n /\ ((n - 1) - 1) + 1 = n - 1
      BY <1>1, <3>1
    <3>3. log'[n - 1] = log[n] /\ log'[(n - 1) - 1] = log[n - 1]
      BY <1>1, <3>2
    <3> QED
      BY <3>1, <3>2, <3>3 DEF Rising
  <2>2. ASSUME NEW m \in Rising(log') PROVE m + 1 \in S /\ f[m + 1] = m
    <3>1. m \in 2..Len(log') /\ log'[m].maintain /\ ~log'[m - 1].maintain
      BY <2>2 DEF Rising
    <3>2. /\ m \in 1..(Len(log) - 1) /\ m - 1 \in 1..(Len(log) - 1)
          /\ m + 1 \in 2..Len(log) /\ m + 1 # 2 /\ (m + 1) - 1 = m /\ (m - 1) + 1 = m
      BY <1>1, <3>1
    <3>3. log'[m] = log[m + 1] /\ log'[m - 1] = log[m]
      BY <1>1, <3>2
    <3>4. m + 1 \in S
      BY <3>1, <3>2, <3>3 DEF Rising
    <3> QED
      BY <3>2, <3>4
  <2>3. f \in [S -> Rising(log')]
    BY <2>1
  <2> QED
    BY <2>2, <2>3 DEF Surjection
<1>6. Cardinality(Rising(log')) <= Cardinality(S)
  <2> HIDE DEF S, f
  <2> QED
    BY <1>4, <1>5, FS_Surjection
<1>7. Cardinality(Rising(log')) \in Nat
  <2>1. IsFiniteSet(2..Len(log')) /\ Rising(log') \in SUBSET (2..Len(log'))
    BY <1>1, FS_Interval DEF Rising
  <2> QED
    BY <2>1, FS_Subset, FS_CardinalityType
<1> QED
  BY <1>2, <1>3, <1>4, <1>6, <1>7
LEMMA AccountStep ==
  ASSUME AccountInv, LogStep, OtherStep, TypeOK'
  PROVE  Account'
<1>1. /\ LogOK /\ hist.asked \in Nat /\ hist.updated \in Nat /\ hist'.asked \in Nat
      /\ hist'.updated \in Nat /\ Cardinality(Rising(log)) \in Nat
      /\ Underway \in Int /\ Underway' \in Int
  BY Parts, RisingFinite, PendingType DEF AccountInv, HistType, Underway
<1>2. /\ hist'.updated + Underway' <= hist.updated + Underway
      /\ hist'.asked \in {hist.asked, hist.asked + 1}
      /\ hist.updated + Underway + Cardinality(Rising(log)) <= hist.asked
  BY DEF OtherStep, AccountInv, Account
<1>3. \/ Cardinality(Rising(log')) = Cardinality(Rising(log))
      \/ /\ Cardinality(Rising(log')) = Cardinality(Rising(log)) + 1
         /\ hist'.asked = hist.asked + 1
  BY <1>1, RisingAppend DEF LogStep
<1>4. hist'.updated + Underway' + Cardinality(Rising(log')) <= hist'.asked
  BY <1>1, <1>2, <1>3
<1> QED
  BY <1>4 DEF Account

\* A delivery moves one request from the log into the queue.
LEMMA AccountDeliver ==
  ASSUME AccountInv, Deliver
  PROVE  UpdateSteps' /\ CreatesGuarded' /\ Account'
<1>1. /\ LogOK /\ hist.asked \in Nat /\ hist.updated \in Nat
      /\ Cardinality(Rising(log)) \in Nat /\ queued \in [Controllers -> BOOLEAN]
      /\ "update" \in Controllers
  BY Parts, RisingFinite DEF AccountInv, HistType, OtherTypes, Controllers
<1>2. /\ work' = work /\ hist' = hist /\ Len(log) > 1 /\ log' = Tail(log)
      /\ queued'["update"] = (queued["update"] \/ Passes("update", cache, log[2]))
  BY <1>1 DEF Deliver
<1>3. UpdateSteps' /\ CreatesGuarded'
  BY <1>2 DEF AccountInv, UpdateSteps, CreatesGuarded
<1>4. Underway' <= Underway + (IF Passes("update", cache, log[2]) THEN 1 ELSE 0)
      /\ Underway \in Int /\ Underway' \in Int
  <2>1. Underway \in Int /\ Underway' \in Int
    BY PendingType DEF Underway
  <2>2. CASE queued["update"] \/ ~Passes("update", cache, log[2])
    <3>1. queued'["update"] <=> queued["update"]
      BY <1>2, <2>2
    <3>2. Underway' = Underway
      BY <1>2, <3>1 DEF Underway, Pending
    <3> QED
      BY <2>1, <3>2
  <2>3. CASE ~queued["update"] /\ Passes("update", cache, log[2])
    BY <1>2, <2>1, <2>3 DEF Underway, Pending
  <2> QED
    BY <2>1, <2>2, <2>3
<1>5. Cardinality(Rising(log')) + (IF Passes("update", cache, log[2]) THEN 1 ELSE 0)
        <= Cardinality(Rising(log))
  BY <1>1, <1>2, RisingTail
<1>6. Cardinality(Rising(log')) \in Nat
  <2>1. Len(log') \in Nat
    BY <1>1, <1>2, LogEnds, TailEffect
  <2>2. IsFiniteSet(2..Len(log')) /\ Rising(log') \in SUBSET (2..Len(log'))
    BY <2>1, FS_Interval DEF Rising
  <2> QED
    BY <2>2, FS_Subset, FS_CardinalityType
<1>7. hist'.updated + Underway' + Cardinality(Rising(log')) <= hist'.asked
  <2>1. hist.updated + Underway + Cardinality(Rising(log)) <= hist.asked
    BY DEF AccountInv, Account
  <2> QED
    BY <1>1, <1>2, <1>4, <1>5, <1>6, <2>1
<1> QED
  BY <1>3, <1>7 DEF Account

\* A restart forgets what was waiting.
LEMMA AccountRestart ==
  ASSUME AccountInv, Restart
  PROVE  UpdateSteps' /\ CreatesGuarded' /\ Account' /\ ~Awake'
<1>1. /\ hist.asked \in Nat /\ hist.updated \in Nat /\ LogOK
      /\ Cardinality(Rising(log)) \in Nat /\ Underway \in 0..2
  <2>1. LogOK /\ HistType
    BY Parts DEF AccountInv
  <2>2. Underway \in 0..2
    BY DEF Underway, Pending
  <2> QED
    BY <2>1, <2>2, RisingFinite DEF HistType
<1>2. /\ work'["update"] = Idle /\ work'["deployment"] = Idle /\ ~queued'["update"]
      /\ log' = <<dep>>
  BY DEF Restart, Controllers
<1>3. hist'.asked = hist.asked /\ hist'.updated = hist.updated
  BY Parts DEF Restart, Fail, Lost, AccountInv, HistType
<1>4. UpdateSteps' /\ CreatesGuarded' /\ ~Awake' /\ Underway' = 0
  BY <1>2, IdleType DEF UpdateSteps, CreatesGuarded, Awake, Underway, Pending, Before
<1>5. Cardinality(Rising(log')) = 0
  <2>1. Rising(log') = {}
    BY <1>2 DEF Rising
  <2> QED
    BY <2>1, FS_EmptySet
<1>6. hist'.updated + Underway' + Cardinality(Rising(log')) <= hist'.asked
  <2>1. hist.updated + Underway + Cardinality(Rising(log)) <= hist.asked
    BY DEF AccountInv, Account
  <2> QED
    BY <1>1, <1>3, <1>4, <1>5, <2>1
<1> QED
  BY <1>4, <1>6 DEF Account

LEMMA AccountInit == Init => AccountInv
<1> SUFFICES ASSUME Init PROVE AccountInv
  OBVIOUS
<1>1. /\ work["update"] = Idle /\ work["deployment"] = Idle /\ ~queued["update"]
      /\ Len(log) = 1 /\ hist.asked = 0 /\ hist.updated = 0
  BY DEF Init, Controllers
<1>2. UpdateSteps /\ CreatesGuarded /\ Underway = 0
  BY <1>1, IdleType DEF UpdateSteps, CreatesGuarded, Underway, Pending, Before
<1>3. Rising(log) = {}
  BY <1>1 DEF Rising
<1>4. Account
  BY <1>1, <1>2, <1>3, FS_EmptySet DEF Account
<1> QED
  BY <1>2, <1>4, InitType DEF AccountInv

LEMMA AccountNext == AccountInv /\ [Next]_vars => AccountInv'
<1> SUFFICES ASSUME AccountInv, [Next]_vars PROVE AccountInv'
  OBVIOUS
<1>1. TypeOK'
  BY NextType DEF AccountInv
<1>2. CASE UNCHANGED vars
  BY <1>1, <1>2 DEF vars, AccountInv, UpdateSteps, CreatesGuarded, Account, Underway
<1>3. CASE Next
  <2>1. CASE LogStep /\ OtherStep
    BY <1>1, <2>1, AccountStep DEF AccountInv, OtherStep
  <2>2. CASE Deliver
    BY <1>1, <2>2, AccountDeliver DEF AccountInv
  <2>3. CASE Restart
    BY <1>1, <2>3, AccountRestart DEF AccountInv
  <2> QED
    BY <1>3, <2>1, <2>2, <2>3, NextSteps DEF AccountInv
<1> QED
  BY <1>2, <1>3

\* A maintenance request moves the image at most once, over any number of
\* retries, restarts and versions (property OneUpdatePerRequest).
THEOREM OneUpdateEach == Spec => []OneUpdatePerRequest
<1>1. AccountInv => OneUpdatePerRequest
  <2> SUFFICES ASSUME AccountInv PROVE OneUpdatePerRequest
    OBVIOUS
  <2>1. /\ hist.asked \in Nat /\ hist.updated \in Nat
        /\ Cardinality(Rising(log)) \in Nat /\ Underway \in 0..2
    <3>1. LogOK /\ HistType
      BY Parts DEF AccountInv
    <3>2. Underway \in 0..2
      BY DEF Underway, Pending
    <3> QED
      BY <3>1, <3>2, RisingFinite DEF HistType
  <2> QED
    BY <2>1 DEF AccountInv, Account, OneUpdatePerRequest
<1> QED
  BY <1>1, AccountInit, AccountNext, PTL DEF Spec
-----------------------------------------------------------------------------
(* The shared finalizer *)

\* Whoever has seen the finalizer, and whatever was done because of it, belongs
\* to a deployment that still has it or is gone.
Protected ==
  /\ (\E n \in DOMAIN log : log[n].finalizer) => Guarded(dep)
  /\ \A c \in Controllers : work[c].copy.finalizer => Guarded(dep)
  /\ set.phase # "absent" => Guarded(dep)

\* As long as nobody asks for it the update controller sleeps.
Asleep == hist.asked = 0 => (\A n \in DOMAIN log : ~log[n].maintain) /\ ~Awake

GuardInv == AccountInv /\ Protected /\ Asleep

LEMMA GuardStep ==
  ASSUME GuardInv, LogStep, OtherStep
  PROVE  Protected' /\ Asleep'
<1>1. /\ LogOK /\ HistType /\ hist.asked \in Nat
      /\ Len(log) \in Nat /\ Len(log) >= 1 /\ DOMAIN log = 1..Len(log)
  BY Parts, LogEnds DEF GuardInv, AccountInv, HistType, LogOK
<1>2. cache = log[1] /\ 1 \in DOMAIN log /\ dep = log[Len(log)] /\ Len(log) \in DOMAIN log
  BY <1>1 DEF cache, dep, LogOK
<1>3. /\ Guarded(dep) => Guarded(dep')
      /\ \/ log' = log
         \/ /\ DOMAIN log' = 1..(Len(log) + 1) /\ log'[Len(log) + 1] = dep'
            /\ \A n \in DOMAIN log : log'[n] = log[n]
  <2>1. CASE log' = log
    BY <2>1 DEF dep
  <2>2. CASE log' = Append(log, dep') /\ dep' \in Object /\ dep' # dep
    <3>1. /\ LogOK' /\ Len(log') = Len(log) + 1 /\ log'[Len(log')] = dep'
          /\ \A n \in 1..Len(log) : log'[n] = log[n]
      BY <1>1, <2>2, AppendEffect
    <3>2. DOMAIN log' = 1..Len(log')
      BY <3>1 DEF LogOK
    <3> QED
      BY <1>1, <2>1, <3>1, <3>2 DEF LogStep, Admits
  <2> QED
    BY <2>1, <2>2 DEF LogStep
<1>4. ASSUME NEW n \in DOMAIN log', log'[n].finalizer PROVE Guarded(dep')
  <2>1. n \in DOMAIN log \/ log'[n] = dep'
    BY <1>1, <1>3
  <2>2. CASE log'[n] = dep'
    BY <1>4, <2>2 DEF Guarded
  <2>3. CASE n \in DOMAIN log
    <3>1. log[n].finalizer
      BY <1>3, <1>4, <2>3
    <3> QED
      BY <1>3, <2>3, <3>1 DEF GuardInv, Protected
  <2> QED
    BY <2>1, <2>2, <2>3
<1>5. ASSUME NEW c \in Controllers, work'[c].copy.finalizer PROVE Guarded(dep')
  <2>1. work[c].copy.finalizer \/ cache.finalizer \/ dep'.finalizer
    BY <1>5 DEF OtherStep
  <2> QED
    BY <1>2, <1>3, <2>1 DEF GuardInv, Protected, Guarded
<1>6. ASSUME set'.phase # "absent" PROVE Guarded(dep')
  <2>1. set.phase # "absent" \/ work["deployment"].copy.finalizer
    BY <1>6 DEF OtherStep, GuardInv, AccountInv, CreatesGuarded
  <2> QED
    BY <1>3, <2>1 DEF GuardInv, Protected, Controllers
<1>7. ASSUME hist'.asked = 0 PROVE (\A n \in DOMAIN log' : ~log'[n].maintain) /\ ~Awake'
  <2>1. hist.asked = 0
    BY <1>1, <1>7 DEF OtherStep
  <2>2. ~Awake' /\ \A n \in DOMAIN log : ~log[n].maintain
    BY <2>1 DEF GuardInv, Asleep, OtherStep
  <2>3. log' # log => ~dep'.maintain
    BY <1>2, <1>7, <2>1, <2>2 DEF LogStep
  <2> QED
    BY <1>1, <1>3, <2>2, <2>3
<1> QED
  BY <1>4, <1>5, <1>6, <1>7 DEF Protected, Asleep

LEMMA GuardDeliver ==
  ASSUME GuardInv, Deliver
  PROVE  Protected' /\ Asleep' /\ dep' = dep
<1>1. /\ LogOK /\ queued \in [Controllers -> BOOLEAN] /\ "update" \in Controllers
      /\ Len(log) \in Nat /\ DOMAIN log = 1..Len(log)
  BY Parts, LogEnds DEF GuardInv, AccountInv, OtherTypes, Controllers, LogOK
<1>2. /\ work' = work /\ hist' = hist /\ set' = set /\ Len(log) > 1 /\ log' = Tail(log)
      /\ queued'["update"] = (queued["update"] \/ Passes("update", cache, log[2]))
  BY <1>1 DEF Deliver
<1>3. /\ LogOK' /\ dep' = dep /\ Len(log') = Len(log) - 1
      /\ \A n \in 1..(Len(log) - 1) : log'[n] = log[n + 1]
  BY <1>1, <1>2, TailEffect
<1>4. DOMAIN log' = 1..(Len(log) - 1)
  <2>1. DOMAIN log' = 1..Len(log')
    BY <1>3 DEF LogOK
  <2> QED
    BY <1>3, <2>1
<1>5. \A n \in DOMAIN log' : n + 1 \in DOMAIN log /\ log'[n] = log[n + 1]
  BY <1>1, <1>3, <1>4
<1>6. Protected'
  <2>1. (\E n \in DOMAIN log' : log'[n].finalizer) => \E n \in DOMAIN log : log[n].finalizer
    BY <1>5
  <2> QED
    BY <1>2, <1>3, <2>1 DEF GuardInv, Protected
<1>7. Asleep'
  <2>1. 2 \in DOMAIN log
    BY <1>1, <1>2
  <2>2. hist.asked = 0 => ~Passes("update", cache, log[2])
    BY <2>1 DEF GuardInv, Asleep, Passes, AnnotationAdded
  <2> QED
    BY <1>2, <1>5, <2>2 DEF GuardInv, Asleep, Awake
<1> QED
  BY <1>3, <1>6, <1>7

LEMMA GuardRestart ==
  ASSUME GuardInv, Restart
  PROVE  Protected' /\ Asleep' /\ dep' = dep
<1>1. LogOK /\ HistType /\ Len(log) \in DOMAIN log
  BY Parts, LogEnds DEF GuardInv, AccountInv, LogOK
<1>2. /\ \A c \in Controllers : work'[c] = Idle
      /\ log' = <<dep>> /\ set' = set /\ hist'.asked = hist.asked
  BY <1>1 DEF Restart, Fail, Lost, HistType
<1>3. dep' = dep /\ DOMAIN log' = {1} /\ log'[1] = log[Len(log)]
  BY <1>2 DEF dep
<1>4. ~Awake'
  BY AccountRestart DEF GuardInv
<1>5. Protected'
  BY <1>1, <1>2, <1>3, IdleType DEF GuardInv, Protected
<1>6. Asleep'
  BY <1>1, <1>2, <1>3, <1>4 DEF GuardInv, Asleep
<1> QED
  BY <1>3, <1>5, <1>6

LEMMA GuardInit == Init => GuardInv
<1> SUFFICES ASSUME Init PROVE GuardInv
  OBVIOUS
<1>1. /\ \A c \in Controllers : work[c] = Idle
      /\ ~queued["update"] /\ "update" \in Controllers
      /\ DOMAIN log = {1} /\ ~log[1].finalizer /\ ~log[1].maintain
      /\ set.phase = "absent"
  <2>1. /\ \A c \in Controllers : work[c] = Idle
        /\ ~queued["update"] /\ "update" \in Controllers /\ set.phase = "absent"
    BY DEF Init, Controllers
  <2>2. PICK o : log = <<o>> /\ ~o.finalizer /\ ~o.maintain
    BY DEF Init
  <2>3. DOMAIN log = {1} /\ log[1] = o
    BY <2>2
  <2> QED
    BY <2>1, <2>2, <2>3
<1>2. Protected /\ Asleep
  BY <1>1, IdleType DEF Protected, Asleep, Awake
<1> QED
  BY <1>2, AccountInit DEF GuardInv

LEMMA GuardNext == GuardInv /\ [Next]_vars => GuardInv'
<1> SUFFICES ASSUME GuardInv, [Next]_vars PROVE GuardInv'
  OBVIOUS
<1>1. AccountInv'
  BY AccountNext DEF GuardInv
<1>2. CASE UNCHANGED vars
  BY <1>1, <1>2 DEF vars, GuardInv, Protected, Asleep, Awake, dep
<1>3. CASE Next
  <2>1. (LogStep /\ OtherStep) \/ Deliver \/ Restart
    BY <1>3, NextSteps DEF GuardInv, AccountInv
  <2> QED
    BY <1>1, <2>1, GuardStep, GuardDeliver, GuardRestart DEF GuardInv
<1> QED
  BY <1>2, <1>3

\* Until somebody asks for maintenance the deployment outlives its sets, over
\* any lag of the cache (property FinalizerGuardsSets).
THEOREM SetsAreGuarded == Spec => FinalizerGuardsSets
<1>1. GuardInv /\ [Next]_vars
        => [dep.phase # "gone" /\ dep'.phase = "gone" /\ hist.asked = 0 => set.phase = "absent"]_vars
  <2> SUFFICES ASSUME GuardInv, Next, dep.phase # "gone", dep'.phase = "gone", hist.asked = 0
               PROVE  set.phase = "absent"
    OBVIOUS
  <2>1. dep' # dep
    OBVIOUS
  <2>2. LogStep
    BY <2>1, NextSteps, GuardDeliver, GuardRestart DEF GuardInv, AccountInv
  <2>3. Admits(dep')
    BY <2>1, <2>2 DEF LogStep, dep
  <2>4. ~Guarded(dep) \/ set.phase = "absent"
    BY <2>3 DEF Admits, GuardInv, Asleep
  <2> QED
    BY <2>4 DEF GuardInv, Protected
<1> QED
  BY <1>1, GuardInit, GuardNext, PTL DEF Spec, FinalizerGuardsSets
===============================================================================
