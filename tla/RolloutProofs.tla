---------------------------- MODULE RolloutProofs ----------------------------
(***************************************************************************)
(* The deployment controller implements Rollout: every step of Deployment  *)
(* is a step of Rollout or leaves the revisions as they are.               *)
(***************************************************************************)
EXTENDS DeploymentProofs

RolloutInv == RevisionInv /\ HiddenInv

-----------------------------------------------------------------------------
(* At most one set is hidden, and none without a finalizer *)

LEMMA InitHidden == Init => HiddenInv
BY AbsentType DEF Init, HiddenInv, Existing, Idle

\* A step that neither shows nor makes a set.
LEMMA NothingNew ==
  ASSUME HiddenInv,
         Existing(sets)' \subseteq Existing(sets), view' = view,
         dep'.phase = "present" /\ ~dep'.finalizer =>
           dep.phase = "present" /\ ~dep.finalizer /\ work'.pc = "idle"
  PROVE  HiddenInv'
BY DEF HiddenInv, Existing

\* A step that shows everything.
LEMMA NothingHidden ==
  ASSUME HiddenInv, view' = sets, sets' = sets, dep'.phase = dep.phase,
         dep'.finalizer = dep.finalizer, work.pc = "idle" => work'.pc = "idle"
  PROVE  HiddenInv'
BY DEF HiddenInv, Existing

LEMMA NextHidden ==
  ASSUME "lostAnswer" \notin Faults, RevisionInv, HiddenInv, [Next]_vars
  PROVE  HiddenInv'
<1> USE DEF Existing
<1>0. TypeOK
  BY DEF RevisionInv
<1>1. CASE UNCHANGED vars
  BY <1>1 DEF vars, HiddenInv
<1>2. CASE Begin
  <2>1. dep'.finalizer = TRUE
    BY <1>0, <1>2 DEF Begin, TypeOK, DeploymentObject
  <2> QED
    BY <1>2, <2>1, NothingNew DEF Begin, ListSets
<1>3. CASE Delete
  <2>1. dep'.phase # "present"
    BY <1>0, <1>3 DEF Delete, TypeOK, DeploymentObject
  <2> QED
    BY <1>3, <2>1, NothingNew DEF Delete, ListSets
<1>4. ASSUME NEW n \in Sets, createFirewallSet(n) PROVE HiddenInv'
  <2>1. Existing(sets) \subseteq Existing(view) /\ view' = view /\ dep' = dep
        /\ sets' = [sets EXCEPT ![n] = NewSet] /\ work.pc = "create"
    BY <1>4 DEF createFirewallSet, RevisionInv, ViewIsCurrent
  <2>2. Existing(sets)' \ Existing(view)' \subseteq {n}
    BY <2>1
  <2> QED
    BY <2>1, <2>2 DEF HiddenInv
<1>5. ASSUME NEW d \in Sets, DeleteSet(d) PROVE HiddenInv'
  <2>1. Existing(sets)' \subseteq Existing(sets) /\ work.pc = "delete"
    BY <1>0, <1>5 DEF DeleteSet, TypeOK, SetObject
  <2> QED
    BY <1>5, <2>1, NothingNew DEF DeleteSet, HiddenInv
<1>6. CASE CreationBackedOff
  BY <1>6, NothingNew DEF CreationBackedOff, HiddenInv
<1>7. CASE syncFirewallSet
  <2> DEFINE l == work.latest
             new == [sets[l] EXCEPT !.replicas = work.target.replicas,
                                    !.image = work.target.image,
                                    !.rules = work.target.rules]
  <2>1. l \in Sets /\ view' = view /\ dep' = dep /\ work.pc = "sync"
    BY <1>0, <1>7, ConstantsAssumption
       DEF syncFirewallSet, RevisionInv, LatestIsNewest, TypeOK, Work
  <2>2. new.phase = sets[l].phase
    BY <1>0, <2>1 DEF TypeOK, SetObject
  <2>3. sets' = sets \/ sets' = [sets EXCEPT ![l] = new]
    BY <1>7 DEF syncFirewallSet
  <2>4. Existing(sets)' \subseteq Existing(sets)
    BY <1>0, <2>1, <2>2, <2>3 DEF TypeOK
  <2> QED
    BY <2>1, <2>4, NothingNew DEF HiddenInv
<1>8. CASE SwapDistance
  <2>1. Existing(sets)' \subseteq Existing(sets)
    BY <1>0, <1>8 DEF SwapDistance, TypeOK, SetObject
  <2> QED
    BY <1>8, <2>1, NothingNew DEF SwapDistance, HiddenInv
<1>9. CASE PublishStatus
  <2>1. view' = view \/ view' = sets
    BY <1>9 DEF PublishStatus
  <2>2. sets' = sets /\ dep' = dep /\ work.pc = "status"
    BY <1>9 DEF PublishStatus
  <2> QED
    BY <2>1, <2>2 DEF HiddenInv
<1>10. CASE Refresh
  BY <1>10, NothingHidden DEF Refresh
<1>11. CASE BackoffExpires
  BY <1>11 DEF BackoffExpires, HiddenInv
<1>12. ASSUME NEW s \in Sets, SetReports(s) \/ SetFinalized(s) \/ GarbageCollect(s)
       PROVE  HiddenInv'
  <2>1. Existing(sets)' \subseteq Existing(sets)
    BY <1>0, <1>12, AbsentType DEF SetReports, SetFinalized, GarbageCollect, TypeOK, SetObject
  <2> QED
    BY <1>12, <2>1, NothingNew DEF SetReports, SetFinalized, GarbageCollect, HiddenInv
<1>13. CASE ChangeImage \/ ChangeRules \/ Scale \/ ChangeStrategy
  <2>1. PICK kind, new : Disturb(kind) /\ UpdateSpec(new)
    BY <1>13 DEF ChangeImage, ChangeRules, Scale, ChangeStrategy
  <2>2. dep'.finalizer = dep.finalizer /\ dep'.phase = dep.phase
    BY <1>0, <2>1 DEF UpdateSpec, TypeOK, DeploymentObject
  <2> QED
    BY <2>1, <2>2 DEF Disturb, UpdateSpec, HiddenInv
<1>14. CASE DeleteDeployment
  <2>1. dep'.phase # "present"
    BY <1>0, <1>14 DEF DeleteDeployment, TypeOK, DeploymentObject
  <2> QED
    BY <1>14, <2>1 DEF DeleteDeployment, Disturb, HiddenInv
<1>15. ASSUME NEW s \in Sets, RollSet(s) \/ Degrade(s) PROVE HiddenInv'
  <2>1. Existing(sets)' \subseteq Existing(sets)
    BY <1>0, <1>15 DEF RollSet, Degrade, TypeOK, SetObject
  <2> QED
    BY <1>15, <2>1, NothingNew DEF RollSet, Degrade, Disturb, HiddenInv
<1>16. CASE ApiError
  BY <1>16, NothingNew DEF ApiError, Fail, HiddenInv
<1>17. CASE Restart
  <2>1. work'.pc = "idle"
    BY <1>17, IdleType DEF Restart
  <2> QED
    BY <1>17, <2>1, NothingHidden DEF Restart, Fail
<1>18. ASSUME NEW s \in Sets PROVE ~CreateAnswerLost(s)
  BY DEF CreateAnswerLost, Fail
<1> HIDE DEF Existing
<1> QED
  BY <1>1, <1>2, <1>3, <1>4, <1>5, <1>6, <1>7, <1>8, <1>9, <1>10, <1>11, <1>12, <1>13,
     <1>14, <1>15, <1>16, <1>17, <1>18 DEF Next, Controller, Outside

-----------------------------------------------------------------------------
(* Steps of the deployment as steps of its promise *)

\* A step that changes neither life cycles nor revisions is a stutter.
LEMMA SameMembers ==
  ASSUME \A s \in Sets : sets'[s].phase = sets[s].phase /\ sets'[s].rev = sets[s].rev
  PROVE  Members' = Members
<1>1. Existing(sets)' = Existing(sets)
  BY DEF Existing
<1> QED
  BY <1>1, SubsetTypes DEF Members, Member, Existing

\* A new set outside the backoff carries the next revision.
LEMMA CreateJoins ==
  ASSUME RolloutInv, NEW n \in Sets, createFirewallSet(n)
  PROVE  Promise!Join
<1> DEFINE m == [rev |-> NewSet.rev, leaving |-> FALSE]
<1>1. /\ TypeOK /\ NewSet.phase = "live" /\ NewSet \in SetObject
      /\ n \notin Existing(sets) /\ sets' = [sets EXCEPT ![n] = NewSet]
      /\ Existing(sets) \subseteq Existing(view) /\ dep' = dep /\ work.pc = "create"
  BY NewSetType DEF RolloutInv, RevisionInv, ViewIsCurrent, createFirewallSet, Fresh
<1>2. Members' = Members \cup {m}
  <2>1. sets'[n] = NewSet /\ \A s \in Sets \ {n} : sets'[s] = sets[s]
    BY <1>1 DEF TypeOK
  <2>2. Existing(sets)' = Existing(sets) \cup {n}
    BY <1>1, <2>1 DEF Existing
  <2>3. m = Member(sets'[n])
    BY <1>1, <2>1 DEF Member
  <2>4. \A s \in Existing(sets) : s \in Sets \ {n}
    BY <1>1, SubsetTypes
  <2>5. Members' = {Member(sets'[s]) : s \in Existing(sets) \cup {n}}
    BY <2>2 DEF Members
  <2> HIDE DEF m
  <2> QED
    BY <2>1, <2>3, <2>4, <2>5 DEF Members
<1>3. \A s \in Existing(sets) : sets[s].rev = view[s].rev /\ s \in Existing(view) /\ s \in Sets
  BY <1>1, SubsetTypes DEF RolloutInv, RevisionInv, ViewIsCurrent
<1>4. \A k \in Members : \E s \in Existing(sets) : k.rev = sets[s].rev
  BY DEF Members, Member
<1>5. \A k \in Members : k.rev < m.rev
  <2>1. CASE work.latest = None
    BY <1>1, <1>3, <1>4, <2>1 DEF RolloutInv, RevisionInv, LatestIsNewest
  <2>2. CASE work.latest # None
    <3>1. NewSet.rev = view[work.latest].rev + 1 /\ work.latest \in MaxRevisionOf(view)
      BY <1>1, <2>2 DEF NewSet, NextRevision, RolloutInv, RevisionInv, LatestIsNewest
    <3>2. \A s \in Existing(view) : view[s].rev <= view[work.latest].rev /\ view[s].rev \in Nat
      BY <1>1, <3>1, SubsetTypes DEF MaxRevisionOf, TypeOK, SetObject, Existing
    <3>3. view[work.latest].rev \in Nat
      BY <3>1, <3>2, SubsetTypes
    <3> QED
      BY <1>3, <1>4, <3>1, <3>2, <3>3
  <2> QED
    BY <2>1, <2>2
<1>6. CASE dep.phase # "present"
  BY <1>1, <1>2, <1>5, <1>6 DEF Promise!Join
<1>7. CASE dep.phase = "present" /\ Existing(view) = {}
  <2>1. work.latest = None /\ Members = {}
    BY <1>1, <1>3, <1>7 DEF RolloutInv, RevisionInv, LatestIsNewest, MaxRevisionOf, Members
  <2>2. m.rev = 0
    BY <2>1 DEF NewSet
  <2> QED
    BY <1>1, <1>2, <1>5, <2>1, <2>2 DEF Promise!Join
<1>8. CASE dep.phase = "present" /\ Existing(view) # {}
  <2>1. work.latest # None
    BY <1>1, <1>8 DEF RolloutInv, RevisionInv, LatestIsNewest
  <2>2. NewSet.rev = view[work.latest].rev + 1 /\ work.latest \in MaxRevisionOf(view)
    BY <2>1 DEF NewSet, NextRevision, RolloutInv, RevisionInv, LatestIsNewest
  <2>3. PICK l \in Live(sets) : \A s \in Existing(view) : view[s].rev <= sets[l].rev
    BY <1>8 DEF RolloutInv, RevisionInv, ALeaderLives, Managed
  <2>4. l \in Existing(sets)
    BY <2>3 DEF Live, Existing
  <2>5. sets[l].rev = view[work.latest].rev
    <3>1. sets[l].rev = view[l].rev /\ l \in Existing(view)
      BY <1>3, <2>4
    <3>2. view[l].rev <= view[work.latest].rev /\ view[work.latest].rev <= sets[l].rev
      BY <2>2, <2>3, <3>1, SubsetTypes DEF MaxRevisionOf
    <3>3. view[l].rev \in Nat /\ view[work.latest].rev \in Nat
      BY <1>1, <2>2, <3>1, SubsetTypes DEF TypeOK, SetObject, Existing, MaxRevisionOf
    <3> QED
      BY <3>1, <3>2, <3>3
  <2> DEFINE k == Member(sets[l])
  <2>6. k \in Members /\ m.rev = k.rev + 1
    BY <2>2, <2>4, <2>5 DEF Members, Member
  <2>7. m \in Members' /\ ~m.leaving /\ Members # {}
    BY <1>2, <2>6
  <2> HIDE DEF m, k
  <2> QED
    BY <1>1, <1>2, <1>5, <2>6, <2>7 DEF Promise!Join
<1> QED
  BY <1>6, <1>7, <1>8

\* The image of a set without the image of a point where the function is one to one.
LEMMA RemoveFromImage ==
  ASSUME NEW E, NEW g \in E, NEW F, NEW G,
         \A s \in E : s # g => G[s] = F[s] /\ F[s] # F[g]
  PROVE  {G[s] : s \in E \ {g}} = {F[s] : s \in E} \ {F[g]}
<1>1. ASSUME NEW x \in {G[s] : s \in E \ {g}} PROVE x \in {F[s] : s \in E} \ {F[g]}
  <2>1. PICK s \in E \ {g} : x = G[s]
    BY <1>1
  <2> QED
    BY <2>1
<1>2. ASSUME NEW x \in {F[s] : s \in E} \ {F[g]} PROVE x \in {G[s] : s \in E \ {g}}
  <2>1. PICK s \in E : x = F[s]
    BY <1>2
  <2> QED
    BY <1>2, <2>1
<1> QED
  BY <1>1, <1>2

\* A live set that becomes terminating leaves, if a newer one lives or the
\* deployment is being deleted.
LEMMA DeletionLeaves ==
  ASSUME RolloutInv, NEW d \in Sets, sets[d].phase = "live",
         sets' = [sets EXCEPT ![d].phase = "terminating"], dep' = dep,
         dep.phase = "present" => \E l \in Live(sets) : sets[d].rev < sets[l].rev
  PROVE  Promise!Leave
<1> DEFINE m == Member(sets[d])
           gone == [rev |-> m.rev, leaving |-> TRUE]
<1>1. TypeOK /\ d \in Existing(sets) /\ RevisionsUnique
  BY DEF RolloutInv, RevisionInv, Existing
<1>2. m \in Members /\ ~m.leaving
  BY <1>1 DEF Members, Member
<1>3. gone = Member(sets'[d])
  BY <1>1 DEF Member, TypeOK, SetObject
<1>4. \A s \in Existing(sets) : s # d => sets'[s] = sets[s] /\ Member(sets[s]) # m
  BY <1>1, SubsetTypes DEF RevisionsUnique, Member, TypeOK
<1>5. Existing(sets)' = Existing(sets)
  BY <1>1 DEF Existing, TypeOK, SetObject
<1>6. Members' = {Member(sets'[s]) : s \in Existing(sets)}
  BY <1>5 DEF Members
<1>7. Members' = (Members \ {m}) \cup {gone}
  <2>1. ASSUME NEW x \in Members' PROVE x \in (Members \ {m}) \cup {gone}
    <3>1. PICK s \in Existing(sets) : x = Member(sets'[s])
      BY <1>6, <2>1
    <3>2. CASE s = d
      BY <1>3, <3>1, <3>2
    <3>3. CASE s # d
      <4>1. x = Member(sets[s]) /\ x # m
        BY <1>4, <3>1, <3>3
      <4> HIDE DEF m, gone
      <4> QED
        BY <3>1, <4>1 DEF Members
    <3> QED
      BY <3>2, <3>3
  <2>2. ASSUME NEW x \in Members, x # m PROVE x \in Members'
    <3>1. PICK s \in Existing(sets) : x = Member(sets[s])
      BY <2>2 DEF Members
    <3>2. s # d /\ x = Member(sets'[s])
      BY <1>4, <2>2, <3>1
    <3> HIDE DEF m, gone
    <3> QED
      BY <1>6, <3>1, <3>2
  <2>3. gone \in Members'
    <3> HIDE DEF gone
    <3> QED
      BY <1>1, <1>3, <1>6
  <2> HIDE DEF m, gone
  <2> QED
    BY <2>1, <2>2, <2>3
<1>8. dep.phase = "present" => \E n \in Members : ~n.leaving /\ m.rev < n.rev
  <2>1. SUFFICES ASSUME dep.phase = "present" PROVE \E n \in Members : ~n.leaving /\ m.rev < n.rev
    OBVIOUS
  <2>2. PICK l \in Live(sets) : sets[d].rev < sets[l].rev
    BY <2>1
  <2>3. Member(sets[l]) \in Members /\ ~Member(sets[l]).leaving /\ m.rev < Member(sets[l]).rev
    BY <2>2 DEF Members, Member, Live, Existing
  <2> QED
    BY <2>3
<1> HIDE DEF m
<1> QED
  BY <1>2, <1>7, <1>8 DEF Promise!Leave

LEMMA FinalizedVanishes ==
  ASSUME RolloutInv, NEW g \in Sets, SetFinalized(g)
  PROVE  Promise!Vanish
<1> DEFINE m == Member(sets[g])
<1>1. TypeOK /\ g \in Existing(sets) /\ RevisionsUnique /\ dep' = dep
      /\ sets' = [sets EXCEPT ![g] = Absent]
  BY DEF RolloutInv, RevisionInv, Existing, SetFinalized
<1>2. m \in Members /\ m.leaving
  BY <1>1 DEF Members, Member, SetFinalized
<1>3. \A s \in Existing(sets) : s # g => sets'[s] = sets[s] /\ Member(sets[s]) # m
  BY <1>1, SubsetTypes DEF RevisionsUnique, Member, TypeOK
<1>4. Existing(sets)' = Existing(sets) \ {g}
  BY <1>1, AbsentType DEF Existing, TypeOK, SetObject
<1>5. Members' = {Member(sets'[s]) : s \in Existing(sets) \ {g}}
  BY <1>4 DEF Members
<1> HIDE DEF m
<1>6. Members' = Members \ {m}
  <2> DEFINE F == [s \in Sets |-> Member(sets[s])]
             G == [s \in Sets |-> Member(sets'[s])]
             E == Existing(sets)
  <2>1. Members = {F[s] : s \in E} /\ Members' = {G[s] : s \in E \ {g}}
    BY <1>5, SubsetTypes DEF Members
  <2>2. F[g] = m /\ g \in E
    BY <1>1 DEF m
  <2>3. \A s \in E : s # g => G[s] = F[s] /\ F[s] # F[g]
    BY <1>3, SubsetTypes DEF m
  <2> HIDE DEF F, G, E
  <2> QED
    BY <2>1, <2>2, <2>3, RemoveFromImage
<1> QED
  BY <1>1, <1>2, <1>6 DEF Promise!Vanish

\* Every step of the deployment is a step of its promise, or a stutter.
LEMMA NextImplements ==
  ASSUME "lostAnswer" \notin Faults, RolloutInv, [Next]_vars
  PROVE  [Promise!Next]_(Promise!vars)
<1>0. TypeOK
  BY DEF RolloutInv, RevisionInv
<1>S. ASSUME Members' = Members, dep'.phase = dep.phase PROVE UNCHANGED Promise!vars
  BY <1>S DEF Promise!vars
<1>1. CASE UNCHANGED vars
  <2>1. Members' = Members
    BY <1>1 DEF vars, Members, Existing
  <2> QED
    BY <1>1, <1>S, <2>1 DEF vars
<1>2. CASE Begin
  <2>1. Members' = Members /\ dep'.phase = dep.phase
    BY <1>0, <1>2 DEF Begin, Members, Existing, TypeOK, DeploymentObject
  <2> QED
    BY <1>S, <2>1
<1>3. CASE Delete
  <2>1. Members' = Members
    BY <1>3 DEF Delete, Members, Existing
  <2>2. CASE dep' = dep
    BY <1>S, <2>1, <2>2
  <2>3. CASE Existing(view) = {} /\ dep' = [dep EXCEPT !.phase = "gone", !.finalizer = FALSE]
    <3>1. dep.phase = "terminating" /\ dep'.phase = "gone"
      BY <1>0, <1>3, <2>3 DEF Delete, TypeOK, DeploymentObject
    <3>2. \A s, t \in Existing(sets) : s = t
      BY <2>3 DEF RolloutInv, HiddenInv
    <3>3. \A m, n \in Members : m = n
      BY <3>2 DEF Members
    <3> QED
      BY <2>1, <3>1, <3>3 DEF Promise!Next, Promise!Finish
  <2> QED
    BY <1>3, <2>2, <2>3 DEF Delete, Remaining
<1>4. ASSUME NEW n \in Sets, createFirewallSet(n) PROVE Promise!Next
  BY <1>4, CreateJoins DEF Promise!Next
<1>5. ASSUME NEW d \in Sets, DeleteSet(d) PROVE [Promise!Next]_(Promise!vars)
  <2>1. dep' = dep /\ d \in work.doomed
    BY <1>5 DEF DeleteSet
  <2>2. CASE sets' = sets
    <3>1. Members' = Members
      BY <2>2 DEF Members, Existing
    <3> QED
      BY <1>S, <2>1, <3>1
  <2>3. CASE sets[d].phase = "terminating" /\ sets' = [sets EXCEPT ![d].phase = "terminating"]
    <3>1. sets' = sets
      BY <1>0, <2>3 DEF TypeOK, SetObject
    <3> QED
      BY <2>2, <3>1
  <2>4. CASE sets[d].phase = "live" /\ sets' = [sets EXCEPT ![d].phase = "terminating"]
    <3>1. d \in Existing(sets) /\ d \in Existing(view) /\ sets[d].rev = view[d].rev
      BY <2>1, <2>4 DEF RolloutInv, RevisionInv, ALeaderLives, ViewIsCurrent, Existing
    <3>2. dep.phase = "present" => \E l \in Live(sets) : sets[d].rev < sets[l].rev
      BY <2>1, <3>1 DEF RolloutInv, RevisionInv, ALeaderLives, Managed
    <3> QED
      BY <2>1, <2>4, <3>2, DeletionLeaves DEF Promise!Next
  <2>5. sets[d].phase \in {"absent", "live", "terminating"}
    BY <1>0 DEF TypeOK, SetObject
  <2> QED
    BY <1>5, <2>2, <2>3, <2>4, <2>5 DEF DeleteSet
<1>6. ASSUME NEW g \in Sets, GarbageCollect(g) PROVE Promise!Next
  <2>1. dep.phase # "present" /\ sets[g].phase = "live" /\ dep' = dep
        /\ sets' = [sets EXCEPT ![g].phase = "terminating"]
    BY <1>6 DEF GarbageCollect
  <2> QED
    BY <2>1, DeletionLeaves DEF Promise!Next
<1>7. ASSUME NEW g \in Sets, SetFinalized(g) PROVE Promise!Next
  BY <1>7, FinalizedVanishes DEF Promise!Next
<1>8. CASE DeleteDeployment
  <2>1. Members' = Members /\ dep.phase = "present"
        /\ dep'.phase = IF dep.finalizer THEN "terminating" ELSE "gone"
    BY <1>0, <1>8 DEF DeleteDeployment, Members, Existing, TypeOK, DeploymentObject
  <2>2. ~dep.finalizer => Members = {}
    BY <2>1 DEF RolloutInv, HiddenInv, Members
  <2> QED
    BY <2>1, <2>2 DEF Promise!Next, Promise!Delete
<1>9. CASE syncFirewallSet
  <2> DEFINE l == work.latest
             new == [sets[l] EXCEPT !.replicas = work.target.replicas,
                                    !.image = work.target.image,
                                    !.rules = work.target.rules]
  <2>1. l \in Sets /\ dep' = dep
    BY <1>0, <1>9, ConstantsAssumption
       DEF syncFirewallSet, RolloutInv, RevisionInv, LatestIsNewest, TypeOK, Work
  <2>2. new.phase = sets[l].phase /\ new.rev = sets[l].rev
    BY <1>0, <2>1 DEF TypeOK, SetObject
  <2>3. sets' = sets \/ sets' = [sets EXCEPT ![l] = new]
    BY <1>9 DEF syncFirewallSet
  <2>4. \A s \in Sets : sets'[s].phase = sets[s].phase /\ sets'[s].rev = sets[s].rev
    BY <1>0, <2>1, <2>2, <2>3 DEF TypeOK
  <2> QED
    BY <1>S, <2>1, <2>4, SameMembers
<1>10. ASSUME NEW g \in Sets, SetReports(g) \/ RollSet(g) \/ Degrade(g)
       PROVE  UNCHANGED Promise!vars
  <2>1. \A s \in Sets : sets'[s].phase = sets[s].phase /\ sets'[s].rev = sets[s].rev
    BY <1>0, <1>10 DEF SetReports, RollSet, Degrade, TypeOK, SetObject
  <2> QED
    BY <1>10, <1>S, <2>1, SameMembers DEF SetReports, RollSet, Degrade
<1>11. CASE SwapDistance
  <2>1. \A s \in Sets : sets'[s].phase = sets[s].phase /\ sets'[s].rev = sets[s].rev
    BY <1>0, <1>11 DEF SwapDistance, TypeOK, SetObject
  <2> QED
    BY <1>11, <1>S, <2>1, SameMembers DEF SwapDistance
<1>12. CASE ChangeImage \/ ChangeRules \/ Scale \/ ChangeStrategy
  <2>1. PICK new : UpdateSpec(new)
    BY <1>12 DEF ChangeImage, ChangeRules, Scale, ChangeStrategy
  <2>2. dep'.phase = dep.phase /\ sets' = sets
    BY <1>0, <2>1 DEF UpdateSpec, TypeOK, DeploymentObject
  <2> QED
    BY <1>S, <2>2, SameMembers
<1>13. CASE CreationBackedOff \/ PublishStatus \/ Refresh \/ BackoffExpires
            \/ ApiError \/ Restart
  <2>1. sets' = sets /\ dep' = dep
    BY <1>13 DEF CreationBackedOff, PublishStatus, Refresh, BackoffExpires, ApiError,
                 Restart, Fail
  <2> QED
    BY <1>S, <2>1, SameMembers
<1>14. ASSUME NEW s \in Sets PROVE ~CreateAnswerLost(s)
  BY DEF CreateAnswerLost, Fail
<1> QED
  BY <1>1, <1>2, <1>3, <1>4, <1>5, <1>6, <1>7, <1>8, <1>9, <1>10, <1>11, <1>12, <1>13,
     <1>14 DEF Next, Controller, Outside

\* The reconciler implements Rollout: consecutive revisions, and no set is given
\* up but for a newer one that stays, over any cache and across restarts.
THEOREM DeploymentImplementsRollout ==
  ASSUME "lostAnswer" \notin Faults
  PROVE  Spec => ImplementsRollout
<1>1. Init => Promise!Init
  BY AbsentType DEF Init, Promise!Init, Members, Existing
<1>2. RevisionInv /\ HiddenInv /\ [Next]_vars => HiddenInv'
  BY NextHidden
<1>3. Spec => [](RevisionInv /\ HiddenInv)
  BY <1>2, InitHidden, RevisionInvariant, PTL DEF Spec
<1>4. RevisionInv /\ HiddenInv /\ [Next]_vars => [Promise!Next]_(Promise!vars)
  BY NextImplements DEF RolloutInv
<1> QED
  BY <1>1, <1>3, <1>4, PTL DEF Spec, ImplementsRollout, Promise!Spec
=============================================================================
