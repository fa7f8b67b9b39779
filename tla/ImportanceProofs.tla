--------------------------- MODULE ImportanceProofs ---------------------------
(***************************************************************************)
(* Proofs about the order of the firewalls of a set, for every number of   *)
(* them that is sorted by insertion and every weight, condition and age:   *)
(* the comparison may be used for sorting although it is not strict, and   *)
(* the distances that the sorted firewalls get do not change the roles.    *)
(***************************************************************************)
EXTENDS Importance, TLAPS

-----------------------------------------------------------------------------
(* The comparison *)

\* What less compares.
Comparable ==
  [weight : Int, conds : {Conditions(level) : level \in Levels},
   distance : 0..FirewallLongestDistance, born : Nat]

\* A condition that does not hold is worse than every distance.
Rank(fw, ct) == IF Holds(fw.conds, ct) THEN fw.distance ELSE FirewallLongestDistance + 1

LEMMA ComparableType ==
  ASSUME NEW a \in Comparable
  PROVE  /\ a.weight \in Int /\ a.born \in Int /\ a.distance \in 0..FirewallLongestDistance
         /\ \A ct : Rank(a, ct) \in 0..FirewallLongestDistance + 1
BY DEF Comparable, Rank, FirewallLongestDistance

LEMMA CompareIsByRank ==
  ASSUME NEW a \in Comparable, NEW b \in Comparable, NEW ct
  PROVE  /\ Compare(a, b, ct) = 1 <=> Rank(a, ct) < Rank(b, ct)
         /\ Compare(a, b, ct) = 0 <=> Rank(a, ct) = Rank(b, ct)
<1>1. /\ a.distance \in 0..FirewallLongestDistance
      /\ b.distance \in 0..FirewallLongestDistance
  BY ComparableType
<1>2. CASE Holds(a.conds, ct) /\ Holds(b.conds, ct)
  BY <1>1, <1>2 DEF Compare, Rank, FirewallLongestDistance
<1>3. CASE Holds(a.conds, ct) /\ ~Holds(b.conds, ct)
  BY <1>1, <1>3 DEF Compare, Rank, FirewallLongestDistance
<1>4. CASE ~Holds(a.conds, ct) /\ Holds(b.conds, ct)
  BY <1>1, <1>4 DEF Compare, Rank, FirewallLongestDistance
<1>5. CASE ~Holds(a.conds, ct) /\ ~Holds(b.conds, ct)
  BY <1>1, <1>5 DEF Compare, Rank, FirewallLongestDistance
<1> QED
  BY <1>2, <1>3, <1>4, <1>5

\* The comparison is lexicographic.
LEMMA LessIsLexicographic ==
  ASSUME NEW a \in Comparable, NEW b \in Comparable
  PROVE  less(a, b) <=>
           \/ a.weight > b.weight
           \/ /\ a.weight = b.weight
              /\ \/ Rank(a, "Connected") < Rank(b, "Connected")
                 \/ /\ Rank(a, "Connected") = Rank(b, "Connected")
                    /\ \/ Rank(a, "Ready") < Rank(b, "Ready")
                       \/ /\ Rank(a, "Ready") = Rank(b, "Ready")
                          /\ \/ Rank(a, "Created") < Rank(b, "Created")
                             \/ /\ Rank(a, "Created") = Rank(b, "Created")
                                /\ a.born >= b.born
BY CompareIsByRank DEF less

\* Of two firewalls one may stand before the other.
LEMMA LessIsTotal ==
  ASSUME NEW a \in Comparable, NEW b \in Comparable
  PROVE  less(a, b) \/ less(b, a)
<1>1. \A ct : Rank(a, ct) \in Int /\ Rank(b, ct) \in Int
  BY ComparableType DEF FirewallLongestDistance
<1> HIDE DEF Rank
<1> QED
  BY <1>1, ComparableType, LessIsLexicographic

\* The comparison has no cycles, but for firewalls that agree in everything.
LEMMA LessIsTransitive ==
  ASSUME NEW a \in Comparable, NEW b \in Comparable, NEW c \in Comparable,
         less(a, b), less(b, c)
  PROVE  less(a, c)
<1>1. \A ct : Rank(a, ct) \in Int /\ Rank(b, ct) \in Int /\ Rank(c, ct) \in Int
  BY ComparableType DEF FirewallLongestDistance
<1>2. /\ a.weight \in Int /\ b.weight \in Int /\ c.weight \in Int
      /\ a.born \in Int /\ b.born \in Int /\ c.born \in Int
  BY ComparableType
<1> HIDE DEF Rank
<1> QED
  BY <1>1, <1>2, LessIsLexicographic

\* The comparison respects the documented precedence.
LEMMA LessIsPreference ==
  ASSUME NEW a \in Comparable, NEW b \in Comparable, less(a, b)
  PROVE  ~Preferred(b, a)
<1>1. /\ a.weight \in Int /\ b.weight \in Int /\ a.born \in Int /\ b.born \in Int
      /\ a.distance \in 0..FirewallLongestDistance
      /\ b.distance \in 0..FirewallLongestDistance
  BY ComparableType
<1>2. ~(b.weight > a.weight)
  BY <1>1, LessIsLexicographic
<1>3. ~(b.weight = a.weight /\ Phase(b) > Phase(a))
  BY <1>1, LessIsLexicographic DEF Phase, Rank, FirewallLongestDistance
<1>4. ~(b.weight = a.weight /\ Phase(b) = Phase(a) /\ Phase(b) > 0 /\ b.distance < a.distance)
  BY <1>1, LessIsLexicographic DEF Phase, Rank, FirewallLongestDistance
<1>5. ~(/\ b.weight = a.weight /\ b.conds = a.conds
        /\ Phase(b) = 0 \/ b.distance = a.distance
        /\ b.born > a.born)
  BY <1>1, LessIsLexicographic DEF Phase, Rank, FirewallLongestDistance
<1> QED
  BY <1>2, <1>3, <1>4, <1>5 DEF Preferred

-----------------------------------------------------------------------------
(* The invariant of the insertion sort *)

LEMMA PlacesAreNumbered ==
  \E n \in Nat : n >= 1 /\ Places = 1..n
BY ConstantsAssumption

Last == CHOOSE n \in Nat : n >= 1 /\ Places = 1..n

LEMMA LastType == Last \in Nat /\ Last >= 1 /\ Places = 1..Last
BY PlacesAreNumbered DEF Last

\* The firewalls at the places of a slice, each once.
Permutation(s) ==
  /\ s \in [Places -> Places]
  /\ \A p, q \in Places : s[p] = s[q] => p = q
  /\ \A f \in Places : \E p \in Places : s[p] = f

LEMMA LengthOfSlice ==
  ASSUME NEW s \in [Places -> Places] PROVE Len(s) = Last
BY LastType

ImportanceType ==
  /\ fws \in [Places -> Comparable]
  /\ Permutation(list) /\ Permutation(first)
  /\ i \in 2..Last + 1 /\ j \in 1..i
  /\ pass \in {"first", "second", "done"}

\* All places up to i are in order, but for the firewall at j, which is still on
\* its way down: it belongs before those it has passed.
PrefixSorted ==
  /\ \A p, q \in Places :
       p < q /\ q <= i /\ q # j => less(fws[list[p]], fws[list[q]])
  /\ i > Last => j = i
  /\ pass = "done" => i > Last

\* Two firewalls that may change places with each sort: they do not even exist
\* as machines.
Tie(a, b) == a.weight = b.weight /\ Phase(a) = 0 /\ Phase(b) = 0 /\ a.born = b.born

\* With its new distance a firewall with a role of its own still comes before all
\* that stood behind it, and those do not come before it.
RolesMarked ==
  pass # "first" =>
    \A p, q \in Places : p < q /\ p <= 2 =>
      LET a == fws[first[p]]
          b == fws[first[q]]
      IN less(a, b) /\ (less(b, a) => Tie(a, b))

ImportanceInv == ImportanceType /\ PrefixSorted /\ RolesMarked

LEMMA InitImportance == Init => ImportanceInv
<1> SUFFICES ASSUME Init PROVE ImportanceInv
  OBVIOUS
<1>1. fws \in [Places -> Comparable]
  BY ConstantsAssumption DEF Init, FirewallRecord, Comparable
<1>2. Permutation(list) /\ Permutation(first)
  BY DEF Init, Permutation
<1>3. i = 2 /\ j = 2 /\ pass = "first"
  BY DEF Init
<1>4. ImportanceType
  BY <1>1, <1>2, <1>3, LastType DEF ImportanceType
<1>5. \A p, q \in Places : ~(p < q /\ q <= 2 /\ q # 2)
  BY LastType
<1> QED
  BY <1>3, <1>4, <1>5 DEF ImportanceInv, PrefixSorted, RolesMarked

\* What is known of the loop variables while the slice is being sorted.
LEMMA LoopVariables ==
  ASSUME ImportanceType, Sorting
  PROVE  /\ i \in Places /\ j \in Places /\ j <= i /\ i <= Last /\ j \in Nat /\ i \in Nat
         /\ j > 1 => j - 1 \in Places /\ j - 1 \in Nat
  <1>1. i <= Last
    BY LengthOfSlice DEF ImportanceType, Permutation, Sorting
  <1> QED
    BY <1>1, LastType DEF ImportanceType

LEMMA SwapImportance == ImportanceInv /\ Swap => ImportanceInv'
<1> SUFFICES ASSUME ImportanceInv, Swap PROVE ImportanceInv'
  OBVIOUS
<1> USE DEF ImportanceInv
<1>1. /\ j > 1 /\ less(fws[list[j]], fws[list[j - 1]])
      /\ list' = [list EXCEPT ![j] = list[j - 1], ![j - 1] = list[j]] /\ j' = j - 1
      /\ fws' = fws /\ i' = i /\ pass' = pass /\ first' = first
  BY DEF Swap, MustSwap
<1>2. /\ i \in Places /\ j \in Places /\ j <= i /\ i <= Last /\ j \in Nat /\ i \in Nat
      /\ j - 1 \in Places /\ j - 1 \in Nat
  BY <1>1, LoopVariables DEF Swap
<1>3. /\ list'[j] = list[j - 1] /\ list'[j - 1] = list[j] /\ list' \in [Places -> Places]
      /\ \A p \in Places \ {j, j - 1} : list'[p] = list[p]
  BY <1>1, <1>2 DEF ImportanceType, Permutation
<1>4. Permutation(list')
  <2>1. ASSUME NEW p \in Places, NEW q \in Places, list'[p] = list'[q] PROVE p = q
    <3>1. \A x, y \in Places : list[x] = list[y] => x = y
      BY DEF ImportanceType, Permutation
    <3>2. CASE p \in {j, j - 1} /\ q \in {j, j - 1}
      BY <1>2, <1>3, <2>1, <3>1, <3>2
    <3>3. CASE p \notin {j, j - 1} /\ q \in {j, j - 1}
      BY <1>2, <1>3, <2>1, <3>1, <3>3
    <3>4. CASE p \in {j, j - 1} /\ q \notin {j, j - 1}
      BY <1>2, <1>3, <2>1, <3>1, <3>4
    <3>5. CASE p \notin {j, j - 1} /\ q \notin {j, j - 1}
      BY <1>3, <2>1, <3>1, <3>5
    <3> QED
      BY <3>2, <3>3, <3>4, <3>5
  <2>2. ASSUME NEW f \in Places PROVE \E p \in Places : list'[p] = f
    <3>1. PICK p \in Places : list[p] = f
      BY DEF ImportanceType, Permutation
    <3> QED
      BY <1>2, <1>3, <3>1
  <2> QED
    BY <1>3, <2>1, <2>2 DEF Permutation
<1>5. ImportanceType'
  <2>1. j' \in 1..i'
    BY <1>1, <1>2
  <2> QED
    BY <1>1, <1>4, <2>1 DEF ImportanceType
<1>6. PrefixSorted'
  <2>1. ASSUME NEW p \in Places, NEW q \in Places, p < q, q <= i, q # j - 1
        PROVE  less(fws[list'[p]], fws[list'[q]])
    <3>0. p \in Nat /\ q \in Nat
      BY LastType
    <3> DEFINE Sorted(x, y) == less(fws[list[x]], fws[list[y]])
    <3>1. \A x, y \in Places : x < y /\ y <= i /\ y # j => Sorted(x, y)
      BY DEF PrefixSorted
    <3>2. Sorted(j, j - 1)
      BY <1>1
    <3> SUFFICES \E x, y \in Places : list'[p] = list[x] /\ list'[q] = list[y] /\ Sorted(x, y)
      OBVIOUS
    <3> HIDE DEF Sorted
    <3>3. CASE q = j /\ p = j - 1
      BY <1>2, <1>3, <3>2, <3>3
    <3>4. CASE q = j /\ p # j - 1
      <4>1. p < j - 1 /\ p # j /\ j - 1 <= i /\ j - 1 # j
        BY <1>2, <2>1, <3>0, <3>4
      <4>2. Sorted(p, j - 1)
        BY <1>2, <3>1, <4>1
      <4> QED
        BY <1>2, <1>3, <3>4, <4>1, <4>2
    <3>5. CASE q # j /\ p = j
      <4>1. j - 1 < q
        BY <1>2, <2>1, <3>0, <3>5
      <4>2. Sorted(j - 1, q)
        BY <1>2, <2>1, <3>1, <3>5, <4>1
      <4> QED
        BY <1>2, <1>3, <2>1, <3>5, <4>2
    <3>6. CASE q # j /\ p = j - 1
      <4>1. j < q
        BY <1>2, <2>1, <3>0, <3>6
      <4>2. Sorted(j, q)
        BY <1>2, <2>1, <3>1, <3>6, <4>1
      <4> QED
        BY <1>2, <1>3, <2>1, <3>6, <4>2
    <3>7. CASE q # j /\ p # j /\ p # j - 1
      BY <1>3, <2>1, <3>1, <3>7
    <3> QED
      BY <3>3, <3>4, <3>5, <3>6, <3>7
  <2>2. ~(i > Last)
    BY <1>2, LastType
  <2> QED
    BY <1>1, <2>1, <2>2 DEF PrefixSorted
<1>7. RolesMarked'
  BY <1>1 DEF RolesMarked
<1> QED
  BY <1>5, <1>6, <1>7

LEMMA PlacedImportance == ImportanceInv /\ Placed => ImportanceInv'
<1> SUFFICES ASSUME ImportanceInv, Placed PROVE ImportanceInv'
  OBVIOUS
<1> USE DEF ImportanceInv
<1>1. /\ i' = i + 1 /\ j' = i + 1 /\ ~MustSwap
      /\ fws' = fws /\ list' = list /\ pass' = pass /\ first' = first /\ pass # "done"
  BY DEF Placed, Sorting
<1>2. i \in Places /\ j \in Places /\ j <= i /\ i <= Last /\ j \in Nat /\ i \in Nat
  BY LoopVariables DEF Placed
<1>3. ImportanceType'
  <2>1. i' \in 2..Last' + 1 /\ j' \in 1..i'
    BY <1>1, <1>2, LastType DEF ImportanceType
  <2> QED
    BY <1>1, <2>1 DEF ImportanceType
<1>4. PrefixSorted'
  <2> DEFINE x(p) == fws[list[p]]
  <2>0. \A p \in Places : x(p) \in Comparable /\ p \in Nat
    <3>1. \A p \in Places : list[p] \in Places
      BY DEF ImportanceType, Permutation
    <3> QED
      BY <3>1, LastType DEF ImportanceType
  <2>1. \A p, q \in Places : p < q /\ q <= i /\ q # j => less(x(p), x(q))
    BY DEF PrefixSorted
  <2>2. j > 1 => j - 1 \in Places /\ less(x(j - 1), x(j))
    <3>1. ASSUME j > 1 PROVE j - 1 \in Places /\ ~less(x(j), x(j - 1))
      BY <1>1, <3>1, LoopVariables DEF MustSwap, Placed
    <3> QED
      BY <1>2, <2>0, <3>1, LessIsTotal
  <2> HIDE DEF x
  <2>3. ASSUME NEW p \in Places, p < j PROVE less(x(p), x(j))
    <3>1. j > 1
      BY <1>2, <2>3, LastType
    <3>2. CASE p = j - 1
      BY <2>2, <3>1, <3>2
    <3>3. CASE p # j - 1
      <4>1. p < j - 1 /\ j - 1 <= i /\ j - 1 # j /\ j - 1 \in Places
        BY <1>2, <2>0, <2>2, <2>3, <3>1, <3>3
      <4>2. less(x(p), x(j - 1))
        BY <2>1, <4>1
      <4> QED
        BY <1>2, <2>0, <2>2, <3>1, <4>1, <4>2, LessIsTransitive
    <3> QED
      BY <3>2, <3>3
  <2>4. ASSUME NEW p \in Places, NEW q \in Places, p < q, q <= i + 1, q # i + 1
        PROVE  less(x(p), x(q))
    <3>1. q <= i
      BY <1>2, <2>0, <2>4
    <3> QED
      BY <2>1, <2>3, <2>4, <3>1
  <2> QED
    BY <1>1, <2>4 DEF PrefixSorted, x
<1>5. RolesMarked'
  BY <1>1 DEF RolesMarked
<1> QED
  BY <1>3, <1>4, <1>5

\* When the loop is over, all is in order.
LEMMA SortedAtTheEnd ==
  ASSUME ImportanceInv, ~Sorting
  PROVE  \A p, q \in Places : p < q => less(fws[list[p]], fws[list[q]])
<1>1. i > Last /\ i \in Nat
  BY LengthOfSlice, LastType
     DEF ImportanceInv, ImportanceType, Permutation, Sorting, PrefixSorted
<1>2. \A q \in Places : q <= i /\ q # i
  BY <1>1, LastType
<1> QED
  BY <1>1, <1>2 DEF ImportanceInv, PrefixSorted

-----------------------------------------------------------------------------
(* The distances that the sorted firewalls get *)

LEMMA StaggeredAscend ==
  /\ \A p \in Places : StaggeredDistance(Distance, p) \in 0..FirewallLongestDistance
  /\ \A p, q \in Places : p < q /\ p <= 2 =>
       StaggeredDistance(Distance, p) < StaggeredDistance(Distance, q)
<1>1. Distance \in Nat /\ Distance + 2 <= 8
  BY ConstantsAssumption DEF FirewallLongestDistance
<1>2. \A p \in Places : p \in Nat /\ p >= 1
  BY LastType
<1>3. \A p \in Places :
        StaggeredDistance(Distance, p) =
          Distance + (IF p = 1 THEN 0 ELSE IF p = 2 THEN 1 ELSE 2)
  BY <1>1 DEF StaggeredDistance, FirewallLongestDistance
<1> QED
  BY <1>1, <1>2, <1>3 DEF FirewallLongestDistance

Restaggered(fw, p) == [fw EXCEPT !.distance = StaggeredDistance(Distance, p)]

LEMMA RestaggeredType ==
  ASSUME NEW a \in Comparable, NEW p \in Places
  PROVE  /\ Restaggered(a, p) \in Comparable
         /\ Restaggered(a, p).weight = a.weight /\ Restaggered(a, p).born = a.born
         /\ Restaggered(a, p).conds = a.conds
         /\ Restaggered(a, p).distance = StaggeredDistance(Distance, p)
<1>1. StaggeredDistance(Distance, p) \in 0..FirewallLongestDistance
  BY StaggeredAscend
<1> QED
  BY <1>1 DEF Comparable, Restaggered

\* New distances that ascend as the places do confirm the order by which the
\* places were given.
LEMMA StaggeringConfirms ==
  ASSUME NEW a \in Comparable, NEW b \in Comparable, less(a, b),
         NEW p \in Places, NEW q \in Places, p < q, p <= 2
  PROVE  LET x == Restaggered(a, p)
             y == Restaggered(b, q)
         IN less(x, y) /\ (less(y, x) => Tie(x, y))
<1> DEFINE x == Restaggered(a, p)
           y == Restaggered(b, q)
<1>1. /\ x \in Comparable /\ y \in Comparable /\ x.distance < y.distance
      /\ x.weight = a.weight /\ y.weight = b.weight /\ x.born = a.born /\ y.born = b.born
      /\ x.conds = a.conds /\ y.conds = b.conds
  BY RestaggeredType, StaggeredAscend
<1>2. /\ a.weight \in Int /\ b.weight \in Int /\ a.born \in Int /\ b.born \in Int
      /\ a.distance \in 0..8 /\ b.distance \in 0..8
      /\ x.distance \in 0..8 /\ y.distance \in 0..8
  BY <1>1, ComparableType DEF FirewallLongestDistance
<1> HIDE DEF x, y
<1>3. \A ct : /\ Rank(a, ct) = IF Holds(a.conds, ct) THEN a.distance ELSE 9
              /\ Rank(b, ct) = IF Holds(b.conds, ct) THEN b.distance ELSE 9
              /\ Rank(x, ct) = IF Holds(a.conds, ct) THEN x.distance ELSE 9
              /\ Rank(y, ct) = IF Holds(b.conds, ct) THEN y.distance ELSE 9
  BY <1>1 DEF Rank, FirewallLongestDistance
\* What the ranks say of one condition.
<1>4. ASSUME NEW ct
      PROVE  /\ Rank(a, ct) < Rank(b, ct) => Rank(x, ct) < Rank(y, ct)
             /\ Rank(a, ct) = Rank(b, ct) => Rank(x, ct) <= Rank(y, ct)
             /\ Rank(x, ct) = Rank(y, ct) => ~Holds(x.conds, ct) /\ ~Holds(y.conds, ct)
             /\ Rank(x, ct) \in Int /\ Rank(y, ct) \in Int
  <2>1. CASE Holds(a.conds, ct) /\ Holds(b.conds, ct)
    BY <1>1, <1>2, <1>3, <2>1
  <2>2. CASE Holds(a.conds, ct) /\ ~Holds(b.conds, ct)
    BY <1>1, <1>2, <1>3, <2>2
  <2>3. CASE ~Holds(a.conds, ct) /\ Holds(b.conds, ct)
    BY <1>1, <1>2, <1>3, <2>3
  <2>4. CASE ~Holds(a.conds, ct) /\ ~Holds(b.conds, ct)
    BY <1>1, <1>2, <1>3, <2>4
  <2> QED
    BY <2>1, <2>2, <2>3, <2>4
<1>5. less(x, y)
  BY <1>1, <1>2, <1>4, LessIsLexicographic
<1>6. ASSUME less(y, x) PROVE Tie(x, y)
  <2>1. x.weight = y.weight /\ x.born = y.born
    BY <1>1, <1>2, <1>4, <1>6, LessIsLexicographic
  <2>2. \A ct \in {"Connected", "Ready", "Created"} : Rank(x, ct) = Rank(y, ct)
    BY <1>1, <1>2, <1>4, <1>6, LessIsLexicographic
  <2>3. \A ct \in {"Connected", "Ready", "Created"} :
          ~Holds(x.conds, ct) /\ ~Holds(y.conds, ct)
    BY <1>4, <2>2
  <2>4. Phase(x) = 0 /\ Phase(y) = 0
    BY <2>3 DEF Phase
  <2> QED
    BY <2>1, <2>4 DEF Tie
<1> QED
  BY <1>5, <1>6 DEF x, y

LEMMA StaggerImportance == ImportanceInv /\ Stagger => ImportanceInv'
<1> SUFFICES ASSUME ImportanceInv, Stagger PROVE ImportanceInv'
  OBVIOUS
<1> DEFINE place(f) == CHOOSE p \in Places : list[p] = f
<1>1. /\ fws' = [f \in Places |-> Restaggered(fws[f], place(f))]
      /\ list' = list /\ first' = list /\ i' = 2 /\ j' = 2 /\ pass' = "second"
  BY DEF Stagger, Restaggered
<1>2. Permutation(list) /\ fws \in [Places -> Comparable]
  BY DEF ImportanceInv, ImportanceType
<1>3. \A f \in Places : place(f) \in Places /\ list[place(f)] = f
  BY <1>2 DEF Permutation
<1>4. \A p \in Places : list[p] \in Places /\ place(list[p]) = p
  BY <1>2, <1>3 DEF Permutation
<1> HIDE DEF place
<1>5. fws' \in [Places -> Comparable]
  BY <1>1, <1>2, <1>3, RestaggeredType
<1>6. ImportanceType'
  BY <1>1, <1>2, <1>5, LastType DEF ImportanceType
<1>7. \A p \in Places :
        fws'[first'[p]] = Restaggered(fws[list[p]], p) /\ fws[list[p]] \in Comparable
  BY <1>1, <1>2, <1>4
<1>8. RolesMarked'
  <2>1. ASSUME NEW p \in Places, NEW q \in Places, p < q, p <= 2
        PROVE  LET a == fws'[first'[p]]
                   b == fws'[first'[q]]
               IN less(a, b) /\ (less(b, a) => Tie(a, b))
    <3>1. less(fws[list[p]], fws[list[q]])
      BY <2>1, SortedAtTheEnd DEF Stagger
    <3> QED
      BY <1>7, <2>1, <3>1, StaggeringConfirms
  <2> QED
    BY <2>1 DEF RolesMarked
<1>9. PrefixSorted'
  <2>1. \A p, q \in Places : ~(p < q /\ q <= 2 /\ q # 2)
    BY LastType
  <2>2. pass' # "done" /\ i' = j' /\ i' = 2 /\ j' = 2
    BY <1>1
  <2> QED
    BY <2>1, <2>2 DEF PrefixSorted
<1> QED
  BY <1>6, <1>8, <1>9 DEF ImportanceInv

LEMMA FinishImportance == ImportanceInv /\ Finish => ImportanceInv'
<1> SUFFICES ASSUME ImportanceInv, Finish PROVE ImportanceInv'
  OBVIOUS
<1>1. /\ fws' = fws /\ list' = list /\ first' = first /\ i' = i /\ j' = j
      /\ pass' = "done" /\ pass = "second" /\ ~Sorting
  BY DEF Finish
<1>2. i > Last
  BY <1>1, LengthOfSlice, LastType
     DEF ImportanceInv, ImportanceType, Permutation, Sorting
<1> QED
  BY <1>1, <1>2 DEF ImportanceInv, ImportanceType, PrefixSorted, RolesMarked

THEOREM ImportanceInvariant == Spec => []ImportanceInv
<1>1. ImportanceInv /\ [Next]_vars => ImportanceInv'
  <2>1. ASSUME ImportanceInv, UNCHANGED vars PROVE ImportanceInv'
    BY <2>1 DEF vars, ImportanceInv, ImportanceType, PrefixSorted, RolesMarked
  <2> QED
    BY <2>1, SwapImportance, PlacedImportance, StaggerImportance, FinishImportance DEF Next
<1> QED
  BY <1>1, InitImportance, PTL DEF Spec

\* The insertion sort that sort.Slice is for the few firewalls of a set yields the
\* documented precedence between all of them (SortFirewallsByImportance).
THEOREM SortingOrders == Spec => []SortedByImportance
<1>1. ImportanceInv => SortedByImportance
  <2> SUFFICES ASSUME ImportanceInv, ~Sorting,
                      NEW p \in Places, NEW r \in Places, p < r
               PROVE  ~Preferred(fws[list[r]], fws[list[p]])
    BY DEF SortedByImportance
  <2>1. less(fws[list[p]], fws[list[r]])
    BY SortedAtTheEnd
  <2>2. fws[list[p]] \in Comparable /\ fws[list[r]] \in Comparable
    BY DEF ImportanceInv, ImportanceType, Permutation
  <2> QED
    BY <2>1, <2>2, LessIsPreference
<1> QED
  BY <1>1, ImportanceInvariant, PTL

\* The active firewall and the first backup stay what they are when the staggered
\* firewalls are sorted again (the sync loop of set/reconcile.go).
THEOREM StaggeringKeepsRoles == Spec => []RolesKept
<1>1. ImportanceInv => RolesKept
  <2> SUFFICES ASSUME ImportanceInv, pass = "done",
                      NEW p \in Places, p <= 2, fws[first[p]] # fws[list[p]]
               PROVE  LET x == fws[first[p]]
                          y == fws[list[p]]
                      IN x.born = y.born /\ Phase(x) = 0 /\ Phase(y) = 0
    BY DEF RolesKept
  <2> DEFINE fst(k) == fws[first[k]]
             snd(k) == fws[list[k]]
  <2>1. \A k, m \in Places : k < m => less(snd(k), snd(m))
    BY SortedAtTheEnd DEF Sorting
  <2>2. \A k, m \in Places : k < m /\ k <= 2 =>
          less(fst(k), fst(m)) /\ (less(fst(m), fst(k)) => Tie(fst(k), fst(m)))
    BY DEF ImportanceInv, RolesMarked
  <2>3. /\ \A k \in Places : first[k] \in Places /\ list[k] \in Places
        /\ \A k, m \in Places : first[k] = first[m] => k = m
        /\ \A k, m \in Places : list[k] = list[m] => k = m
        /\ \A f \in Places : (\E k \in Places : first[k] = f) /\ (\E k \in Places : list[k] = f)
    BY DEF ImportanceInv, ImportanceType, Permutation
  \* Where the two are in the other slice.
  <2>4. PICK r \in Places : first[r] = list[p]
    BY <2>3
  <2>5. PICK s \in Places : list[s] = first[p]
    BY <2>3
  <2>6. r # p /\ s # p /\ p \in {1, 2} /\ \A k \in Places : k \in Nat /\ k >= 1
    BY <2>4, <2>5, LastType
  <2>7. fst(r) = snd(p) /\ snd(s) = fst(p)
    BY <2>4, <2>5
  <2>8. SUFFICES \/ Tie(fst(p), snd(p)) \/ Tie(snd(p), fst(p))
                 \/ \E z : (Tie(fst(p), z) \/ Tie(z, fst(p))) /\ (Tie(snd(p), z) \/ Tie(z, snd(p)))
    BY DEF Tie
  <2> HIDE DEF fst, snd
  <2>9. CASE r > p /\ s > p
    <3>1. less(snd(p), snd(s))
      BY <2>1, <2>9
    <3> QED
      BY <2>2, <2>6, <2>7, <2>9, <3>1
  \* The first backup became the active firewall.
  <2>10. CASE r > p /\ s < p
    <3>1. p = 2 /\ s = 1 /\ r > 2 /\ 1 \in Places /\ 2 \in Places
      BY <2>6, <2>10
    <3>2. PICK t \in Places : list[t] = first[1]
      BY <2>3, <3>1
    <3>3. t # 1 /\ t # 2
      <4>1. list[1] = first[2] /\ list[2] = first[r] /\ first[1] # first[2] /\ first[1] # first[r]
        BY <2>3, <2>4, <2>5, <3>1
      <4> QED
        BY <3>2, <4>1
    <3>4. t > 2 /\ snd(t) = fst(1)
      BY <2>6, <3>2, <3>3 DEF fst, snd
    <3>5. less(snd(1), snd(t)) /\ less(snd(2), snd(t))
      BY <2>1, <2>6, <3>1, <3>4
    <3>6. Tie(fst(1), fst(2)) /\ Tie(fst(1), fst(r))
      BY <2>2, <2>6, <2>7, <3>1, <3>4, <3>5
    <3> QED
      BY <2>7, <2>8, <3>1, <3>6
  \* The active firewall became the first backup.
  <2>11. CASE r < p /\ s > p
    <3>1. p = 2 /\ r = 1 /\ s > 2 /\ 1 \in Places /\ 2 \in Places
      BY <2>6, <2>11
    <3>2. PICK u \in Places : first[u] = list[1]
      BY <2>3, <3>1
    <3>3. u # 1 /\ u # 2
      <4>1. first[1] = list[2] /\ first[2] = list[s] /\ list[1] # list[2] /\ list[1] # list[s]
        BY <2>3, <2>4, <2>5, <3>1
      <4> QED
        BY <3>2, <4>1
    <3>4. u > 2 /\ fst(u) = snd(1)
      BY <2>6, <3>2, <3>3 DEF fst, snd
    <3>5. less(snd(1), snd(2)) /\ less(snd(1), snd(s))
      BY <2>1, <2>6, <3>1
    <3>6. Tie(fst(1), fst(u)) /\ Tie(fst(2), fst(u))
      BY <2>2, <2>6, <2>7, <3>1, <3>4, <3>5
    <3> QED
      BY <2>7, <2>8, <3>1, <3>6
  <2>12. CASE r < p /\ s < p
    <3>1. p = 2 /\ r = 1 /\ s = 1 /\ 1 \in Places /\ 2 \in Places
      BY <2>6, <2>12
    <3>2. less(snd(1), snd(2))
      BY <2>1, <3>1
    <3> QED
      BY <2>2, <2>7, <2>8, <3>1, <3>2
  <2> QED
    BY <2>6, <2>9, <2>10, <2>11, <2>12
<1> QED
  BY <1>1, ImportanceInvariant, PTL
=============================================================================
